---- MODULE Spec2Model ----
(***************************************************************************)
(* A model of ion/data/objstore.py: the content-addressed value store      *)
(* (ValueStore), the entity index on top of it (ObjectStore), and the      *)
(* commit-ancestry walk; and of ion/interact/rpc.py: the state machine of  *)
(* an rpc conversation and the initiator's handling of the reply.          *)
(*                                                                         *)
(* Python values are records [k |-> kind, v |-> payload]; kind is the      *)
(* Python type or class name.  Strings are sequences of character codes    *)
(* (naturals >= 10), so that they can be ordered as Python orders str.     *)
(***************************************************************************)
EXTENDS Integers, Sequences, FiniteSets, TLC

VARIABLES
    objstore,    \* ValueStore.objstore.kvs : identity -> pickled value
    entityidx,   \* ObjectStore.entityidx.kvs : entity id -> head commit identity
    now,         \* pu.currenttime_ms()
    calls,       \* SpecVS: per caller, the put_value call it has in flight
    hist,        \* SpecAnc: the commits the put calls returned since the last remove; SpecVS: the calls completed
    anc,         \* SpecAnc: the get_ancestors call in flight
    last,        \* Spec: the last call made, with what it returned or raised
    track,       \* Spec: per entity id, the last put or remove made on it
    conv         \* SpecRpc: the rpc conversation of an initiator

vars == <<objstore, entityidx, now, calls, hist, anc, last, track, conv>>

---------------------------------------------------------------------------
(* Bounds of the model. *)
MaxCommits == 3
MaxPuts == 2

---------------------------------------------------------------------------
(* Python values. *)

None == [k |-> "none", v |-> <<>>]
PyStr(s) == [k |-> "str", v |-> s]
PyInt(n) == [k |-> "int", v |-> <<n>>]
PyList(xs) == [k |-> "list", v |-> xs]
PyTuple(xs) == [k |-> "tuple", v |-> xs]
PyDict(f) == [k |-> "dict", v |-> f]
Raise(exc) == [k |-> "raise", v |-> exc]

IsRaise(x) == x.k = "raise"

\* The character sequence of a string literal of the source.  Codes follow
\* the alphabetical order of the literals, as json's sort_keys compares them.
Chars(lit) ==
    CASE lit = "children" -> <<21>>
      [] lit = "identity" -> <<22>>
      [] lit = "name"     -> <<23>>
      [] lit = "parents"  -> <<24>>
      [] lit = "ref"      -> <<25>>
      [] lit = "roottree" -> <<26>>
      [] lit = "ts"       -> <<27>>
      [] lit = "value"    -> <<28>>
      [] lit = "vtype"    -> <<29>>
      [] lit = "B"        -> <<11>>
      [] lit = "C"        -> <<12>>
      [] lit = "T"        -> <<14>>
      [] lit = "hello"    -> <<41>>
      [] lit = "world"    -> <<42>>
      [] lit = "e1"       -> <<51>>
      [] lit = "e2"       -> <<52>>

\* Python's truth value of an object ("if x:", "not x").
Truthy(x) ==
    CASE x.k = "none" -> FALSE
      [] x.k \in {"str", "list", "tuple"} -> Len(x.v) > 0
      [] x.k = "int" -> x.v[1] # 0
      [] x.k = "dict" -> DOMAIN x.v # {}
      [] OTHER -> TRUE

\* getattr(x, '__iter__', False): in Python 2 a str has no __iter__.
HasIter(x) == x.k \in {"list", "tuple", "dict"}

\* Python's order on str: lexicographic.
StrLess(a, b) ==
    \E i \in 1..(Len(a) + 1) :
        /\ i <= Len(b)
        /\ \A j \in 1..(i - 1) : a[j] = b[j]
        /\ (i = Len(a) + 1 \/ a[i] < b[i])

RECURSIVE SortedStrs(_)
SortedStrs(S) ==
    IF S = {} THEN <<>>
    ELSE LET m == CHOOSE x \in S : \A y \in S \ {x} : StrLess(x, y)
         IN  <<m>> \o SortedStrs(S \ {m})

---------------------------------------------------------------------------
(* ValueRef._secure_value_hash: json.dumps(value, sort_keys=True), then    *)
(* sha1(...).hexdigest().                                                  *)

\* What json.dumps accepts: None, str, int, list, tuple and dict of them.
RECURSIVE JsonAble(_)
JsonAble(x) ==
    CASE x.k \in {"none", "str", "int"} -> TRUE
      [] x.k \in {"list", "tuple"} -> \A i \in 1..Len(x.v) : JsonAble(x.v[i])
      [] x.k = "dict" -> \A key \in DOMAIN x.v : JsonAble(x.v[key])
      [] OTHER -> FALSE

\* The JSON text as a sequence of tokens: 0 null, 1 [ 2 ] 3 { 4 } 5 : 6 and 7
\* the quotes of a string, 8 before a number.  A list and a tuple encode alike,
\* and the keys of a dict come in sorted order.
RECURSIVE JsonDumps(_), JsonSeq(_), JsonItems(_, _)
JsonDumps(x) ==
    CASE x.k = "none" -> <<0>>
      [] x.k = "str" -> <<6>> \o x.v \o <<7>>
      [] x.k = "int" -> <<8, x.v[1]>>
      [] x.k \in {"list", "tuple"} -> <<1>> \o JsonSeq(x.v) \o <<2>>
      [] x.k = "dict" -> <<3>> \o JsonItems(x.v, SortedStrs(DOMAIN x.v)) \o <<4>>

JsonSeq(xs) ==
    IF Len(xs) = 0 THEN <<>> ELSE JsonDumps(Head(xs)) \o JsonSeq(Tail(xs))

JsonItems(d, keys) ==
    IF Len(keys) = 0 THEN <<>>
    ELSE <<6>> \o Head(keys) \o <<7, 5>> \o JsonDumps(d[Head(keys)])
            \o JsonItems(d, Tail(keys))

\* sha1(...).hexdigest() as a collision-free digest: distinct texts have
\* distinct digests, and a digest is made of characters only (codes >= 10).
Sha1Hex(text) == [i \in 1..Len(text) |-> text[i] + 10]

_secure_value_hash(value) ==
    IF JsonAble(value) THEN PyStr(Sha1Hex(JsonDumps(value))) ELSE Raise("TypeError")

---------------------------------------------------------------------------
(* The value classes.  A constructor yields the instance, or Raise(...)    *)
(* when an assert or json.dumps fails.                                     *)

IsValueObject(x) == x.k \in {"ValueObject", "TreeValue", "CommitValue", "RefValue"}
IsValueRef(x) == x.k = "ValueRef" \/ IsValueObject(x)

ValueRef(identity, vtype) == [k |-> "ValueRef", v |-> [identity |-> identity, vtype |-> vtype]]

_value_ref(obj) == ValueRef(obj.v.identity, obj.v.vtype)

\* A ValueObject.__init__ that takes the identity from the type of the value
HashedByType(cls, hash, value, vtype) ==
    IF IsRaise(hash) THEN hash
    ELSE [k |-> cls, v |-> [identity |-> vtype, vtype |-> vtype, value |-> value]]

\* ValueRef.__init__(self, hash, vtype), at the end of ValueObject.__init__
Hashed(cls, hash, value, vtype) ==
    IF IsRaise(hash) THEN hash
    ELSE [k |-> cls, v |-> [identity |-> hash, vtype |-> vtype, value |-> value]]

\* ValueObject.__init__(value, vtype), for class cls
NewValue(cls, value, vtype) ==
    IF value = None THEN Raise("AssertionError")
    ELSE Hashed(cls, _secure_value_hash(value), value, vtype)

ValueObject(value) == NewValue("ValueObject", value, PyStr(Chars("B")))

\* _reftostr(ref); str(ref) of a str is the str itself (no other kind of
\* reference is drawn by the model)
_reftostr(ref) ==
    CASE ~Truthy(ref) -> ref
      [] Truthy(ref) /\ IsValueRef(ref) -> ref.v.identity
      [] Truthy(ref) /\ ref.k = "str" -> ref

\* TreeEntry.__init__, lines 130-136, childref a str by now
EntryOf(childref, name, kwargs) ==
    [k |-> "TreeEntry",
     v |-> [entry |-> PyDict(
               [key \in DOMAIN kwargs \cup {Chars("name"), Chars("ref")} |->
                   IF key = Chars("ref") THEN childref
                   ELSE IF key = Chars("name") THEN (IF name = None THEN childref ELSE name)
                   ELSE kwargs[key]])]]

\* TreeEntry.__init__(childref, name=None, **kwargs)
TreeEntry(childref, name, kwargs) ==
    IF ~Truthy(childref) THEN Raise("AssertionError")
    ELSE EntryOf(_reftostr(childref), name, kwargs)

\* A sort step that puts the entry at the end
InsertAtEnd(e, sorted) == Append(sorted, e)

\* list.sort(key=lambda c: c['ref']): a stable sort by ref
InsertByRef(e, sorted) ==
    SubSeq(sorted, 1, Cardinality({i \in 1..Len(sorted) :
               ~StrLess(e.v[Chars("ref")].v, sorted[i].v[Chars("ref")].v)}))
    \o <<e>>
    \o SubSeq(sorted, 1 + Cardinality({i \in 1..Len(sorted) :
               ~StrLess(e.v[Chars("ref")].v, sorted[i].v[Chars("ref")].v)}), Len(sorted))

\* A TreeValue that keeps its children in the order given
Unsorted(entries) == entries

RECURSIVE SortByRef(_)
SortByRef(entries) ==
    IF Len(entries) = 0 THEN <<>>
    ELSE InsertByRef(entries[Len(entries)], SortByRef(SubSeq(entries, 1, Len(entries) - 1)))

\* TreeValue.__init__, lines 101-105: the children iterated over
ChildSeq(children) ==
    IF ~Truthy(children) THEN <<>>
    ELSE IF ~HasIter(children) THEN <<children>>
    ELSE children.v

\* lines 109-120, tentries the TreeEntry of each child: the first failure of
\* TreeEntry(child) is raised, else the value of the sorted entries is hashed
TreeOf(tentries) ==
    IF \E i \in 1..Len(tentries) : IsRaise(tentries[i])
    THEN tentries[CHOOSE i \in 1..Len(tentries) :
                     IsRaise(tentries[i]) /\ \A j \in 1..(i - 1) : ~IsRaise(tentries[j])]
    ELSE NewValue("TreeValue",
             PyDict([key \in {Chars("vtype"), Chars("children")} |->
                 IF key = Chars("vtype") THEN PyStr(Chars("T"))
                 ELSE PyList(SortByRef([i \in 1..Len(tentries) |-> tentries[i].v.entry]))]),
             PyStr(Chars("T")))

\* lines 111-115
TreeEntries(cs) ==
    [i \in 1..Len(cs) |-> IF cs[i].k = "TreeEntry" THEN cs[i] ELSE TreeEntry(cs[i], None, <<>>)]

\* TreeValue.__init__(children)
TreeValue(children) == TreeOf(TreeEntries(ChildSeq(children)))

\* CommitValue.__init__, lines 172-182, roottree and parents through _reftostr
CommitOf(roottree, parents, kwargs) ==
    IF Truthy(roottree) /\ roottree.k # "str" THEN Raise("AssertionError")
    ELSE NewValue("CommitValue",
             PyDict([key \in DOMAIN kwargs \cup {Chars("vtype"), Chars("parents"), Chars("roottree")} |->
                 IF key = Chars("vtype") THEN PyStr(Chars("C"))
                 ELSE IF key = Chars("parents") THEN PyList(parents)
                 ELSE IF key = Chars("roottree") THEN roottree
                 ELSE kwargs[key]]),
             PyStr(Chars("C")))

\* lines 166-170: the parents iterated over
ParentSeq(parents) ==
    IF ~Truthy(parents) THEN <<>>
    ELSE IF ~HasIter(parents) THEN <<parents>>
    ELSE parents.v

RefStrs(refs) == [i \in 1..Len(refs) |-> _reftostr(refs[i])]

\* CommitValue.__init__(roottree, parents, **kwargs)
CommitValue(roottree, parents, kwargs) ==
    CommitOf(_reftostr(roottree), RefStrs(ParentSeq(parents)), kwargs)

---------------------------------------------------------------------------
(* The backing key-value store (ion.data.store.Store): a dict.             *)

StoreGet(kvs, key) == IF key \in DOMAIN kvs THEN kvs[key] ELSE None

StorePut(kvs, key, val) ==
    [x \in DOMAIN kvs \cup {key} |-> IF x = key THEN val ELSE kvs[x]]

StoreRemove(kvs, key) == [x \in DOMAIN kvs \ {key} |-> kvs[x]]

\* pickle.dumps(obj) of an instance: its class and its attributes, as bytes
PickleDumps(obj) == [k |-> "bytes", v |-> <<obj.k, obj.v>>]

\* pickle.loads(data)
PickleLoads(data) == [k |-> data.v[1], v |-> data.v[2]]

---------------------------------------------------------------------------
(* ValueStore.  An operation that writes yields [kvs, ret]: the store      *)
(* after it and what it returns or raises.                                 *)

\* A put_value that refuses a value the store already has
PutValueOnce(kvs, value) ==
    IF IsRaise(value) THEN [kvs |-> kvs, ret |-> value]
    ELSE IF value.v.identity \in DOMAIN kvs THEN [kvs |-> kvs, ret |-> Raise("KeyError")]
    ELSE [kvs |-> StorePut(kvs, value.v.identity, PickleDumps(value)),
          ret |-> _value_ref(value)]

\* put_value, lines 252-256 and 260-261 (the get of line 252 is only logged)
PutValueObject(kvs, value) ==
    IF IsRaise(value) THEN [kvs |-> kvs, ret |-> value]
    ELSE [kvs |-> StorePut(kvs, value.v.identity, PickleDumps(value)),
          ret |-> _value_ref(value)]

put_value(kvs, value) ==
    PutValueObject(kvs, IF IsValueObject(value) THEN value ELSE ValueObject(value))

\* A get_value that hands back the pickled bytes
NotLoaded(val) == val

\* get_value, lines 267-269, val what the backend returned
Loaded(val) == IF Truthy(val) THEN PickleLoads(val) ELSE val

get_value(kvs, valid) == Loaded(StoreGet(kvs, _reftostr(valid)))

exists_value(kvs, valid) == get_value(kvs, valid) # None

\* put_tree, lines 297 and 305-307: the child value is put; ret its identity
PutChildValue(kvs, childvo) ==
    IF IsRaise(childvo) THEN [kvs |-> kvs, ret |-> childvo]
    ELSE [kvs |-> put_value(kvs, childvo).kvs, ret |-> childvo.v.identity]

\* A turn of put_tree's loop that puts no child
PutTreeChildUnsaved(kvs, child) ==
    [kvs |-> kvs,
     ret |-> IF IsValueRef(child) \/ IsValueObject(child) THEN child.v.identity
             ELSE ValueObject(child).v.identity]

\* One turn of put_tree's loop, lines 293-307
PutTreeChild(kvs, child) ==
    IF IsValueRef(child) /\ ~IsValueObject(child)
    THEN [kvs |-> kvs, ret |-> child.v.identity]
    ELSE PutChildValue(kvs, IF IsValueObject(child) THEN child ELSE ValueObject(child))

\* lines 289-290 and the iteration of line 292 (a dict yields its keys)
TreeChildren(childvalues) ==
    IF ~HasIter(childvalues) THEN <<childvalues>>
    ELSE IF childvalues.k = "dict"
    THEN [i \in 1..Cardinality(DOMAIN childvalues.v) |->
             PyStr(SortedStrs(DOMAIN childvalues.v)[i])]
    ELSE childvalues.v

\* lines 308-310: the tree of the children's identities is built and put
PutTreeValue(kvs, childrefs) == PutValueObject(kvs, TreeValue(PyList(childrefs)))

RECURSIVE PutTreeLoop(_, _, _), PutTreeNext(_, _, _)
PutTreeLoop(kvs, children, childrefs) ==
    IF Len(children) = 0 THEN PutTreeValue(kvs, childrefs)
    ELSE PutTreeNext(PutTreeChild(kvs, Head(children)), Tail(children), childrefs)

\* r the outcome of the turn for one child
PutTreeNext(r, children, childrefs) ==
    IF IsRaise(r.ret) THEN r
    ELSE PutTreeLoop(r.kvs, children, Append(childrefs, r.ret))

put_tree(kvs, childvalues) == PutTreeLoop(kvs, TreeChildren(childvalues), <<>>)

\* get_tree_entries, lines 318-323, val the value fetched
EntriesOf(val) ==
    IF ~Truthy(val) THEN None
    ELSE IF val.v.vtype # PyStr(Chars("T")) THEN Raise("RuntimeError")
    ELSE val.v.value.v[Chars("children")]

get_tree_entries(kvs, valid) == EntriesOf(get_value(kvs, valid))

\* TreeEntry.from_entry(entry)
from_entry(entry) ==
    TreeEntry(entry.v[Chars("ref")], entry.v[Chars("name")],
              [key \in DOMAIN entry.v \ {Chars("ref"), Chars("name")} |-> entry.v[key]])

\* lines 335-338: the entry with its value attribute set
EntryValue(tentry, cval) ==
    [k |-> "TreeEntry", v |-> [entry |-> tentry.v.entry, value |-> cval]]

\* get_tree_entriesvalues, lines 331-339, cvals the entries fetched
EntriesValues(kvs, cvals) ==
    IF IsRaise(cvals) THEN cvals
    ELSE IF ~Truthy(cvals) THEN None
    ELSE PyList([i \in 1..Len(cvals.v) |->
             EntryValue(from_entry(cvals.v[i]), get_value(kvs, cvals.v[i].v[Chars("ref")]))])

get_tree_entriesvalues(kvs, valid) == EntriesValues(kvs, get_tree_entries(kvs, valid))

\* A put_commit that hands back the reference of a commit it does not store
PutCommitUnsaved(kvs, roottreeref, parents, kwargs) ==
    [kvs |-> kvs, ret |-> _value_ref(CommitValue(roottreeref, parents, kwargs))]

put_commit(kvs, roottreeref, parents, kwargs) ==
    PutValueObject(kvs, CommitValue(roottreeref, parents, kwargs))

\* A get_commit that hands back whatever value it fetched
CommitUnchecked(val) == IF ~Truthy(val) THEN None ELSE val

\* get_commit, lines 351-356, val the value fetched
CommitOrNone(val) ==
    IF ~Truthy(val) THEN None
    ELSE IF val.v.vtype # PyStr(Chars("C")) THEN Raise("RuntimeError")
    ELSE val

get_commit(kvs, valid) == CommitOrNone(get_value(kvs, valid))

\* get_commit_root_entriesvalues, lines 364-367, cval the commit fetched
RootEntriesValues(kvs, cval) ==
    IF IsRaise(cval) THEN cval
    ELSE IF ~Truthy(cval) THEN None
    ELSE get_tree_entriesvalues(kvs, cval.v.value.v[Chars("roottree")])

get_commit_root_entriesvalues(kvs, valid) == RootEntriesValues(kvs, get_commit(kvs, valid))

---------------------------------------------------------------------------
(* ObjectStore.  put is given in its phases, each between two suspension   *)
(* points of the code; Put is the whole call when nothing runs in between. *)

\* put, line 450, vref what put_value(value.encode()) gave
PutTreeOfRef(vref) == IF IsRaise(vref.ret) THEN vref ELSE put_tree(vref.kvs, vref.ret)

\* A put that wraps a Tree or a Commit into a tree like any other value
PutRootTreeWrapping(kvs, value) ==
    PutTreeOfRef(IF value.k = "DataObject"
                 THEN put_value(kvs, PyDict(value.v))
                 ELSE [kvs |-> kvs, ret |-> value])

\* put, lines 446-463: the root tree by the shape of value; [kvs, ret]
PutRootTree(kvs, value) ==
    IF value.k = "CommitValue"
    THEN [kvs |-> kvs, ret |-> value.v.value.v[Chars("roottree")]]
    ELSE IF value.k = "TreeValue"
    THEN [kvs |-> kvs, ret |-> value]
    ELSE PutTreeOfRef(IF value.k = "DataObject"
                      THEN put_value(kvs, PyDict(value.v))
                      ELSE [kvs |-> kvs, ret |-> value])

get_entity(eidx, key) == StoreGet(eidx, _reftostr(key))

\* A put_entity that sets the head of every entity of the index
PutEntityAll(eidx, key, commitref) ==
    [x \in DOMAIN eidx \cup {_reftostr(key)} |-> _reftostr(commitref)]

put_entity(eidx, key, commitref) == StorePut(eidx, _reftostr(key), _reftostr(commitref))

\* A put that makes the head a parent whatever parents it is given
PutParentsWithHead(cref, parents) ==
    IF ~Truthy(cref) THEN parents
    ELSE IF parents = None THEN PyList(<<cref>>)
    ELSE PyList(Append(ParentSeq(parents), cref))

\* put, lines 469-474: the parents of the new commit, cref the head read
PutParents(cref, parents) ==
    IF Truthy(cref) /\ parents = None THEN PyList(<<cref>>) ELSE parents

\* put, line 477: ts=pu.currenttime_ms() joins the commit attributes
CommitAttrs(kwargs, ts) ==
    [key \in DOMAIN kwargs \cup {Chars("ts")} |->
        IF key = Chars("ts") THEN PyInt(ts) ELSE kwargs[key]]

\* A put that returns the commit and leaves the head where it was
PutHeadSkipped(cref, eidx, key) ==
    [kvs |-> cref.kvs, eidx |-> eidx, ret |-> cref.ret]

\* put, lines 479-486, cref what put_commit gave: [kvs, eidx, ret]
PutHead(cref, eidx, key) ==
    IF IsRaise(cref.ret) THEN [kvs |-> cref.kvs, eidx |-> eidx, ret |-> cref.ret]
    ELSE [kvs |-> cref.kvs, eidx |-> put_entity(eidx, key, cref.ret), ret |-> cref.ret]

\* A put that drops the head of the entity when its root tree fails
PutCommitDropping(roottreeref, eidx, key, parents, kwargs, ts) ==
    IF IsRaise(roottreeref.ret)
    THEN [kvs |-> roottreeref.kvs, eidx |-> StoreRemove(eidx, _reftostr(key)),
          ret |-> roottreeref.ret]
    ELSE PutHead(put_commit(roottreeref.kvs, roottreeref.ret,
                            PutParents(get_entity(eidx, key), parents),
                            CommitAttrs(kwargs, ts)),
                 eidx, key)

\* put, lines 465-486, roottreeref what the first phase gave
PutCommit(roottreeref, eidx, key, parents, kwargs, ts) ==
    IF IsRaise(roottreeref.ret)
    THEN [kvs |-> roottreeref.kvs, eidx |-> eidx, ret |-> roottreeref.ret]
    ELSE PutHead(put_commit(roottreeref.kvs, roottreeref.ret,
                            PutParents(get_entity(eidx, key), parents),
                            CommitAttrs(kwargs, ts)),
                 eidx, key)

\* ObjectStore.put(key, value, parents, **kwargs) at time ts
Put(kvs, eidx, key, value, parents, kwargs, ts) ==
    PutCommit(PutRootTree(kvs, value), eidx, key, parents, kwargs, ts)

---------------------------------------------------------------------------
(* ion.data.dataobject.DataObject, as its use in objstore.py shows it: an  *)
(* object with named attributes.                                           *)

DataObject == [k |-> "DataObject", v |-> <<>>]

\* dobj.set_attr(name, value), and dobj.identity = value
set_attr(dobj, name, value) == [dobj EXCEPT !.v = StorePut(dobj.v, name, value)]

\* DataObject.from_encoding(value)
from_encoding(value) == [k |-> "DataObject", v |-> value.v]

\* A Deferred that was not yielded on, of a call that ends with result
Deferred(result) == [k |-> "Deferred", v |-> [result |-> result]]

---------------------------------------------------------------------------
(* ObjectStore.get and _build_value.                                       *)

\* A _build_value that hands back the content of a leaf value, bare
LeafContentOnly(value) == value.v.value

\* _build_value, lines 560-568: the data object of a leaf value
LeafObject(value) ==
    IF value.v.value.k = "dict"
    THEN set_attr(from_encoding(value.v.value), Chars("identity"), value.v.identity)
    ELSE set_attr(set_attr(DataObject, Chars("identity"), value.v.identity),
                  Chars("value"), value.v.value)

RECURSIVE _build_value(_, _, _), BuildLoop(_, _, _, _, _),
          BuildEntry(_, _, _, _, _, _, _), BuildSub(_, _, _, _, _, _, _)

\* lines 542-544
_build_value(kvs, entries, deep) ==
    IF IsRaise(entries) THEN entries
    ELSE IF ~Truthy(entries) THEN None
    ELSE BuildLoop(kvs, entries.v, 1, DataObject, deep)

\* lines 545 and 577: the loop over the entries, at entry i
BuildLoop(kvs, entries, i, dobj, deep) ==
    IF i > Len(entries) THEN dobj
    ELSE BuildEntry(kvs, entries, i, dobj, deep,
                    entries[i].v.entry.v[Chars("name")], entries[i].v.value)

\* lines 546-575
BuildEntry(kvs, entries, i, dobj, deep, valname, value) ==
    IF value.k = "TreeValue"
    THEN IF deep
         THEN BuildSub(kvs, entries, i, dobj, deep, valname,
                       get_tree_entriesvalues(kvs, value))
         ELSE BuildLoop(kvs, entries, i + 1, set_attr(dobj, valname.v, value), deep)
    ELSE IF IsValueObject(value)
    THEN IF Len(entries) = 1 THEN LeafObject(value)
         ELSE BuildLoop(kvs, entries, i + 1, set_attr(dobj, valname.v, LeafObject(value)), deep)
    ELSE Raise("RuntimeError")

\* lines 550-554: vdo is the Deferred of a _build_value call not yielded on,
\* an object and so true
BuildSub(kvs, entries, i, dobj, deep, valname, tentries) ==
    IF IsRaise(tentries) THEN tentries
    ELSE BuildLoop(kvs, entries, i + 1,
                   set_attr(dobj, valname.v, Deferred(_build_value(kvs, tentries, deep))),
                   deep)

\* A get that raises for an entity with no head
GetCommitStrict(kvs, cref, commit) ==
    IF ~Truthy(commit) /\ ~Truthy(cref) THEN Raise("KeyError")
    ELSE _build_value(kvs,
             get_commit_root_entriesvalues(kvs, IF Truthy(commit) THEN commit ELSE cref),
             TRUE)

\* A get that takes the head of the entity whenever there is one
GetCommitOfHead(kvs, cref, commit) ==
    IF ~Truthy(commit) /\ ~Truthy(cref) THEN None
    ELSE _build_value(kvs,
             get_commit_root_entriesvalues(kvs, IF Truthy(cref) THEN cref ELSE commit),
             TRUE)

\* get, lines 522-531, cref the head read
GetCommit(kvs, cref, commit) ==
    IF ~Truthy(commit) /\ ~Truthy(cref) THEN None
    ELSE _build_value(kvs,
             get_commit_root_entriesvalues(kvs, IF Truthy(commit) THEN commit ELSE cref),
             TRUE)

get_commitref(eidx, key) == get_entity(eidx, IF IsValueRef(key) THEN key.v.identity ELSE key)

\* ObjectStore.get(key, commit=None)
Get(kvs, eidx, key, commit) == GetCommit(kvs, get_commitref(eidx, _reftostr(key)), commit)

\* getmult, lines 584-585: a key that cannot be iterated is a tuple of one
GetMultKeys(keys) == IF HasIter(keys) THEN keys.v ELSE <<keys>>

RECURSIVE GetMultLoop(_, _, _, _), GetMultNext(_, _, _, _, _)
\* getmult, lines 586-590: the loop over the keys, res the values got so far
GetMultLoop(kvs, eidx, keys, res) ==
    IF Len(keys) = 0 THEN PyList(res)
    ELSE GetMultNext(kvs, eidx, Tail(keys), res, Get(kvs, eidx, Head(keys), None))

\* val what get gave for one key
GetMultNext(kvs, eidx, keys, res, val) ==
    IF IsRaise(val) THEN val ELSE GetMultLoop(kvs, eidx, keys, Append(res, val))

\* ObjectStore.getmult(keys)
GetMult(kvs, eidx, keys) == GetMultLoop(kvs, eidx, GetMultKeys(keys), <<>>)

\* A remove that leaves the entity index alone
RemoveNothing(kvs, eidx, key) ==
    [kvs |-> kvs, eidx |-> eidx, ret |-> Raise("NameError")]

\* A remove that also drops the head commit from the value store
RemoveWithHead(kvs, eidx, key) ==
    [kvs |-> StoreRemove(kvs, get_entity(eidx, key)),
     eidx |-> StoreRemove(eidx, _reftostr(key)), ret |-> Raise("NameError")]

\* ObjectStore.remove(key): the entry is removed, then line 601 names dobj,
\* which remove does not define
Remove(kvs, eidx, key) ==
    [kvs |-> kvs, eidx |-> StoreRemove(eidx, _reftostr(key)), ret |-> Raise("NameError")]

\* ObjectStore._num_entities()
_num_entities(eidx) == PyInt(Cardinality(DOMAIN eidx))

\* ObjectStore.size(): line 610 computes defer.succeed(_num_entities()) and
\* drops it.  size has no yield and so is no generator: inlineCallbacks
\* fails the call, with AttributeError where it calls send on the None that
\* size returned, or with TypeError where it checks for a generator first.
Size(eidx) == {Raise("AttributeError"), Raise("TypeError")}

---------------------------------------------------------------------------
(* ValueStore.get_ancestors and the coroutines of _get_ancestors.          *)
(*                                                                         *)
(* anc.tasks are the _get_ancestors generators, task 1 the one that        *)
(* get_ancestors yields on; anc.stack is the chain of generators running   *)
(* now (an inlineCallbacks call runs in its caller until it suspends on a  *)
(* Deferred that has not fired).  A backend get either has its result at   *)
(* once (the memory store) or suspends its caller until the reactor fires  *)
(* it; the reactor runs only when nothing else does.                       *)

AncIdle == [pc |-> "idle", commitref |-> None, keys |-> {}, resvalues |-> <<>>,
            tasks |-> <<>>, stack |-> <<>>, delivered |-> <<>>]

NewTask(cvalue) == [cvalue |-> cvalue, pos |-> 1, st |-> "run", anc |-> None]

TaskParents(t) == IF Truthy(t.cvalue) THEN t.cvalue.v.value.v[Chars("parents")].v ELSE <<>>

Top(a) == a.stack[Len(a.stack)]

Pop(a) == SubSeq(a.stack, 1, Len(a.stack) - 1)

\* A generator ends (returns or raises) and its caller goes on; when it is
\* task 1, get_ancestors itself completes: it delivers resvalues or fails.
TaskEnds(a, t, st) ==
    LET b == [a EXCEPT !.tasks[t].st = st, !.stack = Pop(a)]
    IN  IF t # 1 THEN b
        ELSE IF st = "done" THEN [b EXCEPT !.pc = "returned", !.delivered = a.resvalues]
        ELSE [b EXCEPT !.pc = "failed"]

\* _get_ancestors, lines 394-396, cval what get_commit(anc) gave to task t
TaskGot(a, t, cval) ==
    IF IsRaise(cval) \/ cval = None THEN TaskEnds(a, t, "raised")
    ELSE [a EXCEPT !.resvalues = Append(a.resvalues, cval),
                   !.tasks = Append([a.tasks EXCEPT ![t].st = "run",
                                                    ![t].pos = a.tasks[t].pos + 1],
                                    NewTask(cval)),
                   !.stack = IF t \in {a.stack[i] : i \in 1..Len(a.stack)}
                             THEN Append(a.stack, Len(a.tasks) + 1)
                             ELSE a.stack \o <<t, Len(a.tasks) + 1>>]

\* line 393
TaskGotCommit(kvs, a, t) == TaskGot(a, t, get_commit(kvs, a.tasks[t].anc))

\* get_ancestors, lines 375-377, cval the start commit fetched
Walk(commitref, cval) ==
    IF IsRaise(cval) THEN [AncIdle EXCEPT !.pc = "failed", !.commitref = commitref]
    ELSE [AncIdle EXCEPT !.pc = "walk", !.commitref = commitref,
                         !.tasks = <<NewTask(cval)>>, !.stack = <<1>>]

get_ancestors(kvs, commitref) == Walk(commitref, get_commit(kvs, commitref))

---------------------------------------------------------------------------
(* ion/interact/rpc.py.  The state machine engine (ion.util.fsm) keeps a   *)
(* table of transitions: an event with no transition for the current       *)
(* state takes the catch transition of the event if there is one, and the  *)
(* default transition otherwise.                                           *)

\* ConversationTypeFSMFactory.create_fsm: a machine with no transition yet
NewFsm == [transitions |-> <<>>, catch |-> <<>>, default |-> <<>>]

add_transition(fsm, input_symbol, state, action, next_state) ==
    [fsm EXCEPT !.transitions = StorePut(@, <<input_symbol, state>>,
                                         [action |-> action, next_state |-> next_state])]

add_transition_catch(fsm, input_symbol, action, next_state) ==
    [fsm EXCEPT !.catch = StorePut(@, input_symbol,
                                   [action |-> action, next_state |-> next_state])]

set_default_transition(fsm, action, next_state) ==
    [fsm EXCEPT !.default = [action |-> action, next_state |-> next_state]]

get_transition(fsm, input_symbol, state) ==
    IF <<input_symbol, state>> \in DOMAIN fsm.transitions
    THEN fsm.transitions[<<input_symbol, state>>]
    ELSE IF input_symbol \in DOMAIN fsm.catch THEN fsm.catch[input_symbol]
    ELSE fsm.default

\* The transitions of lines 55-69
RequestedTransitions ==
    add_transition(
        add_transition(
            add_transition(
                add_transition(NewFsm, "request", "INIT", "request", "REQUESTED"),
                "failure", "REQUESTED", "failure", "FAILED"),
            "inform_result", "REQUESTED", "inform_result", "DONE"),
        "timeout", "REQUESTED", "timeout", "TIMEOUT")

\* A machine that also takes a result before any request was made
create_fsm_early ==
    set_default_transition(
        add_transition_catch(
            add_transition(RequestedTransitions, "inform_result", "INIT", "inform_result", "DONE"),
            "error", "error", "ERROR"),
        "unexpected", "UNEXPECTED")

\* RpcFSMFactory.create_fsm
create_fsm ==
    set_default_transition(
        add_transition_catch(RequestedTransitions, "error", "error", "ERROR"),
        "unexpected", "UNEXPECTED")

\* The conversation of an initiator before rpc_send: the state of its
\* machine; the number of events processed, the last one and the action it
\* ran; conv.timeout; conv.blocking_deferred and its rpc_call, the delayed
\* call of the timeout; where inform_result is (pc) and the status header
\* of its message; whether the message was acked; how many replies were
\* dropped; the calls given to reactor.callLater and those it has run
NewConv ==
    [state |-> "INIT", events |-> 0, event |-> "none", action |-> "none",
     timeout |-> FALSE, blocking_deferred |-> "none", rpc_call |-> "none",
     pc |-> "idle", status |-> "none", acked |-> FALSE, dropped |-> 0,
     later |-> <<>>, fired |-> <<>>]

\* An inform_result that does not look at conv.timeout, and cancels the
\* timeout call only while it is pending
InformResultLate(c, status) ==
    [c EXCEPT !.rpc_call = IF @ = "active" THEN "cancelled" ELSE @,
              !.pc = "ack",
              !.status = status]

\* inform_result, lines 107-121, up to the yield on msg.ack(): a reply
\* after the timeout is dropped; else the timeout call is cancelled, and
\* cancel raises when the call is no longer pending
InformResult(c, status) ==
    IF c.timeout THEN [c EXCEPT !.dropped = @ + 1]
    ELSE [c EXCEPT !.rpc_call = IF c.blocking_deferred = "none" THEN @
                                ELSE IF @ = "active" THEN "cancelled" ELSE "raised",
                   !.pc = IF c.blocking_deferred # "none" /\ c.rpc_call # "active" THEN "idle"
                          ELSE "ack",
                   !.status = status]

\* lines 123-157: what is given to reactor.callLater for a status header
Completion(status) == IF status = "ERROR" THEN "errback" ELSE "callback"

\* The action function of a transition, on the initiator
RunAction(action, c, status) ==
    IF action \in {"inform_result", "failure"} THEN InformResult(c, status) ELSE c

---------------------------------------------------------------------------
(* The initial state: both stores empty, as after ObjectStore.init().      *)

\* No call made yet
NoCall == [op |-> "none", key |-> None, value |-> None, arg |-> None, head |-> None, ret |-> None]

\* The callers of the store, and a caller with no call in flight
Callers == {1, 2}
Idle == [pc |-> "idle", key |-> None, arg |-> None, value |-> None, cref |-> None,
         parents |-> None, ret |-> None]

\* The clock readings time.time() gives
Times == {0, 1}

Init == /\ objstore = <<>>
        /\ entityidx = <<>>
        /\ now = 0
        /\ hist = <<>>
        /\ anc = AncIdle
        /\ last = NoCall
        /\ track = <<>>
        /\ calls = [c \in Callers |-> Idle]
        /\ conv = NewConv

Tick == /\ now + 1 \in Times
        /\ now' = now + 1
        /\ UNCHANGED <<conv, objstore, entityidx, hist, anc, last, track, calls>>

---------------------------------------------------------------------------
(* SpecAnc: a caller builds a commit graph, by put_commit with parents of  *)
(* its choice and by ObjectStore.put on one entity, then walks it.         *)

Entity == PyStr(Chars("e1"))

Hello == PyStr(Chars("hello"))
World == PyStr(Chars("world"))

\* The identities of the commits in the store
Commits(kvs) == {id \in DOMAIN kvs : PickleLoads(kvs[id]).v.vtype = PyStr(Chars("C"))}

\* An identity that no value has
Missing == PyStr(<<99>>)

SeqsUpTo2(S) == {<<>>} \cup {<<x>> : x \in S} \cup {<<x, y>> : x \in S, y \in S}

Building == anc.pc = "idle" /\ Cardinality(Commits(objstore)) < MaxCommits

\* put_commit(roottree, parents): a root commit on no tree or on the empty
\* tree, or a commit on one or two of the commits stored, or a commit on a
\* commit that the store does not hold
BuildCommit ==
    /\ Building
    /\ \E roottree \in {None, TreeValue(None).v.identity},
          parents \in SeqsUpTo2(Commits(objstore)) \cup {<<Missing>>} :
          /\ Len(parents) > 0 => roottree = None
          /\ objstore' = put_commit(objstore, roottree, PyList(parents), <<>>).kvs
    /\ UNCHANGED <<conv, entityidx, now, hist, anc, last, track, calls>>

BuildPut ==
    /\ Building
    /\ \E value \in {Hello, World} :
       \E r \in {Put(objstore, entityidx, Entity, value, None, <<>>, now)} :
          /\ objstore' = r.kvs
          /\ entityidx' = r.eidx
          /\ hist' = Append(hist, r.ret.v.identity)
    /\ UNCHANGED <<conv, now, anc, last, track, calls>>

\* A remove that leaves the head of the entity in the entity index
BuildRemoveKept ==
    /\ Building
    /\ Entity \in DOMAIN entityidx
    /\ hist' = <<>>
    /\ track' = StorePut(track, Entity, [op |-> "remove", value |-> None,
                                        arg |-> get_entity(entityidx, Entity)])
    /\ UNCHANGED <<conv, objstore, entityidx, now, anc, last, calls>>

\* remove(key) of the entity, which has a head; hist starts again, and track
\* keeps the head removed
BuildRemove ==
    /\ Building
    /\ Entity \in DOMAIN entityidx
    /\ \E r \in {Remove(objstore, entityidx, Entity)} :
          /\ objstore' = r.kvs
          /\ entityidx' = r.eidx
    /\ hist' = <<>>
    /\ track' = StorePut(track, Entity, [op |-> "remove", value |-> None,
                                        arg |-> get_entity(entityidx, Entity)])
    /\ UNCHANGED <<conv, now, anc, last, calls>>

AncStart ==
    /\ anc.pc = "idle"
    /\ \E commitref \in DOMAIN objstore : anc' = get_ancestors(objstore, commitref)
    /\ UNCHANGED <<conv, objstore, entityidx, now, hist, last, track, calls>>

Running == Len(anc.stack) > 0 /\ anc.tasks[Top(anc)].st = "run"

\* _get_ancestors, lines 388-391: the loop ends, or skips a parent in keys
AncLoop ==
    /\ Running
    /\ LET t == Top(anc)
           ps == TaskParents(anc.tasks[t])
           pos == anc.tasks[t].pos
       IN  IF pos > Len(ps) THEN anc' = TaskEnds(anc, t, "done")
           ELSE /\ ps[pos] \in anc.keys
                /\ anc' = [anc EXCEPT !.tasks[t].pos = pos + 1]
    /\ UNCHANGED <<conv, objstore, entityidx, now, hist, last, track, calls>>

\* A fetch of a parent that is not marked in keys
FetchingUnmarked(t) ==
    LET ps == TaskParents(anc.tasks[t])
        pos == anc.tasks[t].pos
    IN  [anc EXCEPT !.tasks[t].anc = ps[pos]]

\* lines 392-393: the parent is marked and fetched
Fetching(t) ==
    LET ps == TaskParents(anc.tasks[t])
        pos == anc.tasks[t].pos
    IN  [anc EXCEPT !.keys = anc.keys \cup {ps[pos]}, !.tasks[t].anc = ps[pos]]

CanFetch ==
    /\ Running
    /\ LET t == Top(anc)
           ps == TaskParents(anc.tasks[t])
           pos == anc.tasks[t].pos
       IN  pos <= Len(ps) /\ ps[pos] \notin anc.keys

\* the backend get has its result at once
AncGetNow ==
    /\ CanFetch
    /\ anc' = TaskGotCommit(objstore, Fetching(Top(anc)), Top(anc))
    /\ UNCHANGED <<conv, objstore, entityidx, now, hist, last, track, calls>>

\* the backend get suspends the generator, and its caller runs on
AncGetLater ==
    /\ CanFetch
    /\ anc' = [Fetching(Top(anc)) EXCEPT !.tasks[Top(anc)].st = "wait", !.stack = Pop(anc)]
    /\ UNCHANGED <<conv, objstore, entityidx, now, hist, last, track, calls>>

\* the reactor fires the Deferred of a suspended get
AncResume ==
    /\ Len(anc.stack) = 0
    /\ \E t \in 1..Len(anc.tasks) :
          /\ anc.tasks[t].st = "wait"
          /\ anc' = TaskGotCommit(objstore, anc, t)
    /\ UNCHANGED <<conv, objstore, entityidx, now, hist, last, track, calls>>

NextAnc == BuildCommit \/ BuildPut \/ BuildRemove \/ AncStart
              \/ AncLoop \/ AncGetNow \/ AncGetLater \/ AncResume

SpecAnc == Init /\ [][NextAnc]_vars

\* The store after put_commit(roottree, parents) on store kvs, and the
\* identity of that commit
WithCommit(kvs, roottree, parents) == put_commit(kvs, roottree, PyList(parents), <<>>).kvs
CommitId(roottree, parents) == CommitValue(roottree, PyList(parents), <<>>).v.identity

\* A root commit R, two commits A and B on it (B of the empty tree), and on
\* these: a chain, a commit that lists R twice, a commit that reaches R
\* directly and through A, a commit D that reaches R through A and B, a
\* commit on D, and a commit that reaches B directly and through D
RootId == CommitId(None, <<>>)
AId == CommitId(None, <<RootId>>)
BId == CommitId(TreeValue(None).v.identity, <<RootId>>)
DId == CommitId(None, <<AId, BId>>)
LiveParents == <<<<>>, <<RootId>>, <<AId>>, <<RootId, RootId>>, <<AId, RootId>>, <<AId, BId>>,
                 <<DId>>, <<BId, DId>>>>

RECURSIVE LiveStore(_)
LiveStore(n) ==
    IF n = 0 THEN WithCommit(<<>>, TreeValue(None).v.identity, <<RootId>>)
    ELSE WithCommit(LiveStore(n - 1), None, LiveParents[n])

\* SpecAncLive: get_ancestors calls on the store that these put_commit calls
\* leave.  A generator runs on as long as it can, a backend get completes at
\* once or later, and the reactor fires every Deferred of a suspended get in
\* the end.
InitLive ==
    /\ objstore = LiveStore(Len(LiveParents))
    /\ entityidx = <<>>
    /\ now = 0
    /\ hist = <<>>
    /\ anc = AncIdle
    /\ last = NoCall
    /\ track = <<>>
    /\ calls = [c \in Callers |-> Idle]
    /\ conv = NewConv

NextLive == AncStart \/ AncLoop \/ AncGetNow \/ AncGetLater \/ AncResume

SpecAncLive ==
    /\ InitLive
    /\ [][NextLive]_vars
    /\ WF_vars(AncLoop)
    /\ WF_vars(AncGetNow \/ AncGetLater)
    /\ WF_vars(AncResume)

---------------------------------------------------------------------------
(* The commit graph of a store, for the statements about get_ancestors.    *)

ParentsOf(kvs, id) ==
    IF id \in Commits(kvs)
    THEN {p : p \in {PickleLoads(kvs[id]).v.value.v[Chars("parents")].v[i] :
                        i \in 1..Len(PickleLoads(kvs[id]).v.value.v[Chars("parents")].v)}}
    ELSE {}

RECURSIVE Closure(_, _)
Closure(kvs, ids) ==
    IF \A id \in ids : ParentsOf(kvs, id) \subseteq ids THEN ids
    ELSE Closure(kvs, ids \cup UNION {ParentsOf(kvs, id) : id \in ids})

\* The commits reachable from commit id through parents links
Ancestors(kvs, id) == Closure(kvs, ParentsOf(kvs, id))

Identities(values) == [i \in 1..Len(values) |-> values[i].v.identity]

NoDuplicates(ids) == \A i, j \in 1..Len(ids) : ids[i] = ids[j] => i = j

Range(ids) == {ids[i] : i \in 1..Len(ids)}

\* C2: when get_ancestors(C) completes, the list it delivers holds each commit
\* reachable from C through parents links exactly once: none twice, none
\* missing (every commit reachable from C being in the store).
C2_EachAncestorOnce ==
    (anc.pc = "returned" /\ Ancestors(objstore, anc.commitref) \subseteq DOMAIN objstore) =>
        /\ NoDuplicates(Identities(anc.delivered))
        /\ Range(Identities(anc.delivered)) = Ancestors(objstore, anc.commitref)

\* C3: at the moment get_ancestors completes every descent into a parent's
\* parents has finished, and nothing is appended to the list delivered later.
C3_WalkDoneAtReturn ==
    anc.pc = "returned" =>
        /\ \A t \in 1..Len(anc.tasks) : anc.tasks[t].st \notin {"run", "wait"}
        /\ anc.resvalues = anc.delivered

\* C17: when a commit that can be reached from the start commit through
\* parents links is not in the value store, whatever its depth, get_ancestors
\* fails: it does not complete with a list.
C17_MissingAncestorFails ==
    anc.pc = "returned" => Ancestors(objstore, anc.commitref) \subseteq DOMAIN objstore

\* C4: the commits of k puts without parents on one entity form a chain (the
\* first has no parents, each later one exactly its predecessor), and
\* get_ancestors of the head delivers exactly the k-1 earlier commits.
C4_PutsChain ==
    /\ \A i \in 1..Len(hist) :
          PickleLoads(objstore[hist[i]]).v.value.v[Chars("parents")].v
              = IF i = 1 THEN <<>> ELSE <<hist[i - 1]>>
    /\ (anc.pc = "returned" /\ Len(hist) > 0 /\ anc.commitref = hist[Len(hist)]) =>
          /\ Len(anc.delivered) = Len(hist) - 1
          /\ Range(Identities(anc.delivered)) = {hist[i] : i \in 1..(Len(hist) - 1)}

\* The parents of commit id, in the order in which the commit lists them
ParentList(kvs, id) ==
    IF id \in Commits(kvs) THEN PickleLoads(kvs[id]).v.value.v[Chars("parents")].v ELSE <<>>

\* The depth-first pre-order walk over the parents ps, then over what is left
\* of the lists above; found are the commits discovered so far, in order
RECURSIVE DepthFirst(_, _, _)
DepthFirst(kvs, ps, found) ==
    IF Len(ps) = 0 THEN found
    ELSE IF Head(ps) \in Range(found) THEN DepthFirst(kvs, Tail(ps), found)
    ELSE DepthFirst(kvs, Tail(ps),
                    DepthFirst(kvs, ParentList(kvs, Head(ps)), Append(found, Head(ps))))

\* C27: the list that get_ancestors(C) delivers is in depth-first pre-order
\* over the parents of each commit in the order listed, from the parents of
\* C on (every commit reachable from C being in the store); C is not in it,
\* and it is empty for a root commit.
C27_DepthFirstOrder ==
    (anc.pc = "returned" /\ Ancestors(objstore, anc.commitref) \subseteq DOMAIN objstore) =>
        /\ Identities(anc.delivered)
               = DepthFirst(objstore, ParentList(objstore, anc.commitref), <<>>)
        /\ anc.commitref \notin Range(Identities(anc.delivered))

\* The identities that suspended generators are waiting for
Awaited == {anc.tasks[t].anc : t \in {u \in 1..Len(anc.tasks) : anc.tasks[u].st = "wait"}}

\* No commit was fetched twice: the commits got are all different, no two
\* generators wait for the same commit, and none waits for a commit got
FetchedOnce ==
    /\ NoDuplicates(Identities(anc.resvalues))
    /\ \A t, u \in 1..Len(anc.tasks) :
          (anc.tasks[t].st = "wait" /\ anc.tasks[u].st = "wait" /\ t # u)
              => anc.tasks[t].anc # anc.tasks[u].anc
    /\ Awaited \cap Range(Identities(anc.resvalues)) = {}

\* get_ancestors walks a graph of which every commit is in the store
WalkingAll ==
    /\ anc.pc = "walk"
    /\ Ancestors(objstore, anc.commitref) \subseteq DOMAIN objstore

\* C28: get_ancestors on a graph of which every commit is in the store
\* completes in the end, every backend get completing in the end; and it
\* fetches no commit twice, not one that it reaches along several paths.
C28_CompletesFetchingOnce ==
    /\ [](FetchedOnce)
    /\ WalkingAll ~> (anc.pc = "returned")

\* get_ancestors has returned for a commit whose second parent is also an
\* ancestor of its first parent, after a get that completed later
C28_Witness ==
    /\ anc.pc = "returned"
    /\ Ancestors(objstore, anc.commitref) \subseteq DOMAIN objstore
    /\ Len(ParentList(objstore, anc.commitref)) = 2
    /\ ParentList(objstore, anc.commitref)[2]
           \in Ancestors(objstore, ParentList(objstore, anc.commitref)[1])
    /\ \A t \in 1..Len(anc.tasks) : anc.tasks[t].st = "done"
    /\ Len(anc.resvalues) = 2
    /\ Len(anc.delivered) < 2

\* The entity was removed, and one put without parents has completed since
PutAfterRemove ==
    /\ Entity \in DOMAIN track
    /\ track[Entity].op = "remove"
    /\ Len(hist) = 1

\* C24: after remove(entity), the commit of the next put(entity, v) with no
\* parents given has no parents, and get_ancestors of it, the new head,
\* completes with the empty list.
C24_PutAfterRemoveIsRoot ==
    PutAfterRemove =>
        /\ entityidx[Entity] = hist[1]
        /\ get_value(objstore, hist[1]).v.value.v[Chars("parents")] = PyList(<<>>)
        /\ anc.commitref = hist[1] =>
              /\ anc.pc # "failed"
              /\ anc.pc = "returned" => anc.delivered = <<>>

\* get_ancestors of the head has returned, the head being the commit of a
\* put that followed the remove of another head
C24_Witness ==
    /\ PutAfterRemove
    /\ track[Entity].arg # hist[1]
    /\ anc.pc = "returned"
    /\ anc.commitref = hist[1]
    /\ anc.delivered = <<>>

---------------------------------------------------------------------------
(* Spec: one caller uses an ObjectStore, one call after the other.         *)

HelloBlob == ValueObject(Hello)
WorldBlob == ValueObject(World)

\* A tree and a commit the caller built and did not put
HelloTree == TreeValue(PyList(<<HelloBlob.v.identity>>))
TreeCommit == CommitValue(HelloTree, None, <<>>)

\* What the caller puts with no parents given
PutValues == {Hello, World, WorldBlob, PyList(<<Hello, World>>), PyList(<<>>), None,
              HelloTree, TreeCommit}

\* The parents the caller gives with a value: none, or an empty list, or one
\* commit of the store by its identity or by a reference, or that commit and
\* an identity that no value has, in either order
PutParentChoices ==
    {PyList(<<>>)} \cup {PyList(<<c>>) : c \in Commits(objstore)}
        \cup {PyList(<<ValueRef(c, PyStr(Chars("C")))>>) : c \in Commits(objstore)}
        \cup {PyList(<<c, Missing>>) : c \in Commits(objstore)}
        \cup {PyList(<<Missing, c>>) : c \in Commits(objstore)}

PutInputs == {<<value, None>> : value \in PutValues}
                 \cup {<<Hello, parents>> : parents \in PutParentChoices}

CallPut ==
    /\ Cardinality(Commits(objstore)) < MaxPuts
    /\ \E in \in PutInputs :
       \E r \in {Put(objstore, entityidx, Entity, in[1], in[2], <<>>, now)} :
          /\ objstore' = r.kvs
          /\ entityidx' = r.eidx
          /\ last' = [op |-> "put", key |-> Entity, value |-> in[1], arg |-> in[2],
                      head |-> get_entity(entityidx, Entity), ret |-> r.ret]
          /\ track' = IF IsRaise(r.ret) THEN track
                      ELSE StorePut(track, Entity, [op |-> "put", value |-> in[1], arg |-> in[2]])
    /\ UNCHANGED <<conv, now, hist, anc, calls>>

\* A get that forgets the entity it read
CallGetForgetting ==
    /\ \E r \in {Remove(objstore, entityidx, Entity)} :
          /\ entityidx' = r.eidx
          /\ last' = [op |-> "get", key |-> Entity, value |-> None, arg |-> None,
                      head |-> get_entity(entityidx, Entity),
                      ret |-> Get(objstore, entityidx, Entity, None)]
    /\ UNCHANGED <<conv, objstore, now, hist, anc, track, calls>>

CallGet ==
    /\ \E commit \in {None} \cup Commits(objstore) :
          last' = [op |-> "get", key |-> Entity, value |-> None, arg |-> commit,
                   head |-> get_entity(entityidx, Entity),
                   ret |-> Get(objstore, entityidx, Entity, commit)]
    /\ UNCHANGED <<conv, objstore, entityidx, now, hist, anc, track, calls>>

CallRemove ==
    /\ \E r \in {Remove(objstore, entityidx, Entity)} :
          /\ objstore' = r.kvs
          /\ entityidx' = r.eidx
          /\ last' = [op |-> "remove", key |-> Entity, value |-> None, arg |-> None,
                      head |-> get_entity(entityidx, Entity), ret |-> r.ret]
          /\ track' = IF Entity \in DOMAIN entityidx
                      THEN StorePut(track, Entity, [op |-> "remove", value |-> None, arg |-> None])
                      ELSE track
    /\ UNCHANGED <<conv, now, hist, anc, calls>>

CallSize ==
    /\ \E ret \in Size(entityidx) :
          last' = [op |-> "size", key |-> None, value |-> None, arg |-> None,
                   head |-> None, ret |-> ret]
    /\ UNCHANGED <<conv, objstore, entityidx, now, hist, anc, track, calls>>

Next == Tick \/ CallPut \/ CallGet \/ CallRemove \/ CallSize

Spec == Init /\ [][Next]_vars

---------------------------------------------------------------------------
(* SpecRead: one caller puts simple values to an entity and removes it,    *)
(* and reads the entity and the value store in between.                    *)

\* The identities the caller asks the value store for: those of the values
\* stored, and one that no value has
ReadRefs == DOMAIN objstore \cup {Missing}

\* A call that reads: op what is called, valid its argument, ret its outcome
Read(op, valid, ret) ==
    /\ last' = [op |-> op, key |-> None, value |-> None, arg |-> valid,
                head |-> None, ret |-> ret]
    /\ UNCHANGED <<conv, objstore, entityidx, now, hist, anc, track, calls>>

CallGetValue == \E valid \in ReadRefs : Read("get_value", valid, get_value(objstore, valid))

CallGetTreeEntries ==
    \E valid \in ReadRefs : Read("get_tree_entries", valid, get_tree_entries(objstore, valid))

CallGetCommit == \E valid \in ReadRefs : Read("get_commit", valid, get_commit(objstore, valid))

\* Two Blobs whose contents, a list and a tuple, json.dumps encodes alike
ListBlob == ValueObject(PyList(<<Hello>>))
TupleBlob == ValueObject(PyTuple(<<Hello>>))

\* put(key, value) of a simple value, of a list of two, of a Blob, or of a
\* list of a Tree and a simple value
ReadPut ==
    /\ Cardinality(Commits(objstore)) < MaxPuts
    /\ \E value \in {Hello, PyList(<<Hello, World>>), ListBlob, TupleBlob,
                      PyList(<<HelloTree, World>>)} :
       \E r \in {Put(objstore, entityidx, Entity, value, None, <<>>, now)} :
          /\ objstore' = r.kvs
          /\ entityidx' = r.eidx
          /\ last' = [op |-> "put", key |-> Entity, value |-> value, arg |-> None,
                      head |-> get_entity(entityidx, Entity), ret |-> r.ret]
          /\ track' = StorePut(track, Entity, [op |-> "put", value |-> value, arg |-> None])
    /\ UNCHANGED <<conv, now, hist, anc, calls>>

NextRead == ReadPut \/ CallRemove \/ CallGet
               \/ CallGetValue \/ CallGetTreeEntries \/ CallGetCommit

SpecRead == Init /\ [][NextRead]_vars

---------------------------------------------------------------------------
(* SpecIdx: one caller uses every operation of an ObjectStore and of its   *)
(* ValueStore, one call after the other.                                   *)

\* An entity that is never put
Other == PyStr(Chars("e2"))

\* A call on the ObjectStore that reads: op what is called, key its argument
IdxRead(op, key, ret) ==
    /\ last' = [op |-> op, key |-> key, value |-> None, arg |-> None,
                head |-> get_entity(entityidx, Entity), ret |-> ret]
    /\ UNCHANGED <<conv, objstore, entityidx, now, hist, anc, track, calls>>

CallGetMult ==
    \E keys \in {Entity, PyList(<<Entity, Other>>)} :
        IdxRead("getmult", keys, GetMult(objstore, entityidx, keys))

CallGetCommitref ==
    \E key \in {Entity, Other} : IdxRead("get_commitref", key, get_commitref(entityidx, key))

CallGetEntity ==
    \E key \in {Entity, Other} : IdxRead("get_entity", key, get_entity(entityidx, key))

\* A call on the ValueStore that writes: r what it gave, [kvs, ret]
VsWrite(op, arg, r) ==
    /\ objstore' = r.kvs
    /\ last' = [op |-> op, key |-> None, value |-> None, arg |-> arg,
                head |-> None, ret |-> r.ret]
    /\ UNCHANGED <<conv, entityidx, now, hist, anc, track, calls>>

CallPutValue == \E value \in {World} : VsWrite("put_value", value, put_value(objstore, value))

CallPutTree ==
    \E childvalues \in {PyList(<<World>>)} :
        VsWrite("put_tree", childvalues, put_tree(objstore, childvalues))

\* put_commit of a root commit on the tree of World
CallPutCommit ==
    /\ Cardinality(Commits(objstore)) < MaxPuts
    /\ \E roottree \in {TreeValue(PyList(<<WorldBlob.v.identity>>))} :
          VsWrite("put_commit", roottree, put_commit(objstore, roottree, None, <<>>))

\* A data object with one attribute
HelloObject == set_attr(DataObject, Chars("name"), Hello)

\* A commit attribute that json.dumps does not take: name=DataObject
BadAttrs == [key \in {Chars("name")} |-> HelloObject]

\* What put is given, value and commit attributes: a value of each shape (a
\* simple value, a Blob, a data object, and a Tree and a Commit that the
\* caller built), None, a list with a child that cannot be hashed, and a
\* simple value with an attribute that cannot be hashed
IdxInputs ==
    {<<value, <<>>>> : value \in {Hello, World, WorldBlob, HelloObject, HelloTree, TreeCommit,
                                  None, PyList(<<HelloObject>>)}}
        \cup {<<Hello, BadAttrs>>}

\* put(key, value, **kwargs)
IdxPut ==
    /\ Cardinality(Commits(objstore)) < MaxPuts
    /\ \E in \in IdxInputs :
       \E r \in {Put(objstore, entityidx, Entity, in[1], None, in[2], now)} :
          /\ objstore' = r.kvs
          /\ entityidx' = r.eidx
          /\ last' = [op |-> "put", key |-> Entity, value |-> in[1],
                      arg |-> IF in[2] = <<>> THEN None ELSE PyDict(in[2]),
                      head |-> get_entity(entityidx, Entity), ret |-> r.ret]
    /\ UNCHANGED <<conv, now, hist, anc, track, calls>>

\* remove(key)
IdxRemove ==
    /\ \E r \in {Remove(objstore, entityidx, Entity)} :
          /\ objstore' = r.kvs
          /\ entityidx' = r.eidx
          /\ last' = [op |-> "remove", key |-> Entity, value |-> None, arg |-> None,
                      head |-> get_entity(entityidx, Entity), ret |-> r.ret]
    /\ UNCHANGED <<conv, now, hist, anc, track, calls>>

NextIdx == IdxPut \/ IdxRemove \/ CallGet \/ CallGetMult \/ CallGetCommitref
              \/ CallGetEntity \/ CallSize \/ CallPutValue \/ CallPutTree \/ CallPutCommit
              \/ CallGetValue \/ CallGetTreeEntries \/ CallGetCommit

SpecIdx == Init /\ [][NextIdx]_vars

---------------------------------------------------------------------------
(* SpecVS: two callers use a ValueStore.  A put_value call is two steps,   *)
(* its start up to the backend put and the backend put with the return;    *)
(* get_value and put_tree run with nothing in between.                     *)

MaxCalls == 2

One == PyInt(1)

\* The empty str
Empty == PyStr(<<>>)

\* What the callers put: simple values, a Blob, a list and a tuple that
\* json.dumps encodes alike, None and the empty str
VsContents == {Hello, World, WorldBlob, PyList(<<Hello>>), PyTuple(<<Hello>>), None, Empty}

Perms(S) == {p \in [1..Cardinality(S) -> S] : \A i, j \in DOMAIN p : p[i] = p[j] => i = j}

\* The children lists given to put_tree: every order of two and of three values
VsTrees == {PyList(p) : p \in Perms({Hello, World}) \cup Perms({Hello, World, One})}

\* What get_value is asked for: a reference a call returned, or an identity
\* that no value has
VsRefs ==
    {hist[i].ret : i \in {j \in 1..Len(hist) :
                              ~IsRaise(hist[j].ret) /\ hist[j].op # "get_tree_entries"}}
        \cup {Missing}

InFlight == {c \in Callers : calls[c].pc # "idle"}

Called(op, arg, ret) == [op |-> op, arg |-> arg, ret |-> ret]

CanCall(c) == calls[c].pc = "idle" /\ Len(hist) < MaxCalls

\* put_value, lines 251-252 or 258: the value object is at hand, the backend
\* put is next; when ValueObject(value) raises, the call has failed
VsPutValueCall(c) ==
    /\ CanCall(c)
    /\ \A o \in Callers : calls[o].pc = "idle" \/ Len(hist) + 1 < MaxCalls
    /\ \E value \in VsContents :
       \E vo \in {IF IsValueObject(value) THEN value ELSE ValueObject(value)} :
          IF IsRaise(vo)
          THEN /\ hist' = Append(hist, Called("put_value", value, vo))
               /\ calls' = calls
          ELSE /\ hist' = hist
               /\ calls' = [calls EXCEPT ![c] =
                               [Idle EXCEPT !.pc = "put", !.arg = value, !.value = vo]]
    /\ UNCHANGED <<conv, objstore, entityidx, now, anc, last, track>>

\* put_value, lines 256 or 260, and 261
VsPutValueWrite(c) ==
    /\ calls[c].pc = "put"
    /\ \E r \in {PutValueObject(objstore, calls[c].value)} :
          /\ objstore' = r.kvs
          /\ hist' = Append(hist, Called("put_value", calls[c].arg, r.ret))
    /\ calls' = [calls EXCEPT ![c] = Idle]
    /\ UNCHANGED <<conv, entityidx, now, anc, last, track>>

VsGetValue(c) ==
    /\ CanCall(c)
    /\ \E valid \in VsRefs :
          hist' = Append(hist, Called("get_value", valid, get_value(objstore, valid)))
    /\ UNCHANGED <<conv, objstore, entityidx, now, calls, anc, last, track>>

VsPutTree(c) ==
    /\ CanCall(c)
    /\ \E childvalues \in VsTrees :
       \E r \in {put_tree(objstore, childvalues)} :
          /\ objstore' = r.kvs
          /\ hist' = Append(hist, Called("put_tree", childvalues, r.ret))
    /\ UNCHANGED <<conv, entityidx, now, calls, anc, last, track>>

VsGetTreeEntries(c) ==
    /\ CanCall(c)
    /\ \E valid \in VsRefs :
          hist' = Append(hist, Called("get_tree_entries", valid,
                                      get_tree_entries(objstore, valid)))
    /\ UNCHANGED <<conv, objstore, entityidx, now, calls, anc, last, track>>

NextVS ==
    \E c \in Callers : VsPutValueCall(c) \/ VsPutValueWrite(c) \/ VsGetValue(c) \/ VsPutTree(c)
                        \/ VsGetTreeEntries(c)

SpecVS == Init /\ [][NextVS]_vars

---------------------------------------------------------------------------
(* SpecTree: two callers run put_tree on a ValueStore, a call running one  *)
(* turn of its loop at a time and then the put of the tree.                *)

\* A reference to a value that nobody has put
OneRef == ValueRef(ValueObject(One).v.identity, PyStr(Chars("B")))

\* TreeEntry(WorldBlob, name="hello", ts=1): an entry with a name and an attr
NamedEntry == TreeEntry(WorldBlob, Hello, [key \in {Chars("ts")} |-> One])

\* The children given to put_tree: simple values, a Blob, a bare reference,
\* a value that is no list, and a list with a TreeEntry
TreeInputs == {PyList(<<Hello, World>>), PyList(<<WorldBlob, Hello>>),
               PyList(<<OneRef, Hello>>), Hello, PyList(<<Hello, NamedEntry>>)}

\* put_tree, lines 289-291
TreeCall(c) ==
    /\ calls[c].pc = "idle"
    /\ Len(hist) + Cardinality(InFlight) < MaxCalls
    /\ \E childvalues \in TreeInputs :
          calls' = [calls EXCEPT ![c] =
                       [pc |-> "child", arg |-> childvalues,
                        children |-> TreeChildren(childvalues), childrefs |-> <<>>]]
    /\ UNCHANGED <<conv, objstore, entityidx, now, hist, anc, last, track>>

\* put_tree, lines 292-307: one turn of the loop; a failure ends the call
TreeChild(c) ==
    /\ calls[c].pc = "child"
    /\ Len(calls[c].children) > 0
    /\ \E r \in {PutTreeChild(objstore, Head(calls[c].children))} :
          /\ objstore' = r.kvs
          /\ IF IsRaise(r.ret)
             THEN /\ hist' = Append(hist, Called("put_tree", calls[c].arg, r.ret))
                  /\ calls' = [calls EXCEPT ![c] = Idle]
             ELSE /\ hist' = hist
                  /\ calls' = [calls EXCEPT ![c].children = Tail(calls[c].children),
                                            ![c].childrefs = Append(calls[c].childrefs, r.ret)]
    /\ UNCHANGED <<conv, entityidx, now, anc, last, track>>

\* put_tree, lines 308-310
TreeWrite(c) ==
    /\ calls[c].pc = "child"
    /\ Len(calls[c].children) = 0
    /\ \E r \in {PutTreeValue(objstore, calls[c].childrefs)} :
          /\ objstore' = r.kvs
          /\ hist' = Append(hist, Called("put_tree", calls[c].arg, r.ret))
    /\ calls' = [calls EXCEPT ![c] = Idle]
    /\ UNCHANGED <<conv, entityidx, now, anc, last, track>>

NextTree == \E c \in Callers : TreeCall(c) \/ TreeChild(c) \/ TreeWrite(c)

SpecTree == Init /\ [][NextTree]_vars

---------------------------------------------------------------------------
(* SpecConc: two callers put to one entity of an ObjectStore, a put call   *)
(* running from one suspension point of the code to the next.              *)

\* put, lines 446-463: the root tree of the value is put
ConcPutTree(c) ==
    /\ calls[c].pc = "idle"
    /\ Len(hist) + Cardinality(InFlight) < MaxCommits
    /\ \E value \in {Hello, World} :
       \E r \in {PutRootTree(objstore, value)} :
          /\ objstore' = r.kvs
          /\ calls' = [calls EXCEPT ![c] =
                          [Idle EXCEPT !.pc = "tree", !.key = _reftostr(Entity),
                                       !.arg = value, !.value = r.ret]]
    /\ UNCHANGED <<conv, entityidx, now, hist, anc, last, track>>

\* put, lines 465-474: the head is read, and is the parent of the new commit
ConcGetEntity(c) ==
    /\ calls[c].pc = "tree"
    /\ calls' = [calls EXCEPT ![c].pc = "head",
                              ![c].cref = get_entity(entityidx, calls[c].key),
                              ![c].parents = PutParents(get_entity(entityidx, calls[c].key), None)]
    /\ UNCHANGED <<conv, objstore, entityidx, now, hist, anc, last, track>>

\* A put that writes the head along with the commit
ConcPutCommitHeadFirst(c) ==
    /\ calls[c].pc = "head"
    /\ \E r \in {put_commit(objstore, calls[c].value, calls[c].parents, CommitAttrs(<<>>, now))} :
          /\ objstore' = r.kvs
          /\ entityidx' = put_entity(entityidx, calls[c].key, r.ret)
          /\ calls' = [calls EXCEPT ![c].pc = "commit", ![c].ret = r.ret]
    /\ UNCHANGED <<conv, now, hist, anc, last, track>>

\* put, line 477: the commit is put, its ts the time of this step
ConcPutCommit(c) ==
    /\ calls[c].pc = "head"
    /\ \E r \in {put_commit(objstore, calls[c].value, calls[c].parents, CommitAttrs(<<>>, now))} :
          /\ objstore' = r.kvs
          /\ calls' = [calls EXCEPT ![c].pc = "commit", ![c].ret = r.ret]
    /\ UNCHANGED <<conv, entityidx, now, hist, anc, last, track>>

\* put is abandoned at one of its yields (lines 459, 469, 477, 480): the
\* generator is never resumed, and what it has written stays; hist keeps what
\* the call had got from put_commit, if anything
ConcAbandon(c) ==
    /\ calls[c].pc \in {"tree", "head", "commit"}
    /\ hist' = Append(hist, [op |-> "abandon", key |-> calls[c].key, arg |-> calls[c].arg,
                             ret |-> calls[c].ret, head |-> None])
    /\ calls' = [calls EXCEPT ![c] = Idle]
    /\ UNCHANGED <<conv, objstore, entityidx, now, anc, last, track>>

\* put, lines 480-486: the head is set to the commit, which is returned
ConcPutEntity(c) ==
    /\ calls[c].pc = "commit"
    /\ entityidx' = put_entity(entityidx, calls[c].key, calls[c].ret)
    /\ hist' = Append(hist, [op |-> "put", key |-> calls[c].key, arg |-> calls[c].arg,
                             ret |-> calls[c].ret, head |-> calls[c].cref])
    /\ calls' = [calls EXCEPT ![c] = Idle]
    /\ UNCHANGED <<conv, objstore, now, anc, last, track>>

NextConc ==
    \/ Tick
    \/ \E c \in Callers : ConcPutTree(c) \/ ConcGetEntity(c) \/ ConcPutCommit(c) \/ ConcPutEntity(c)
                        \/ ConcAbandon(c)

SpecConc == Init /\ [][NextConc]_vars

---------------------------------------------------------------------------
(* SpecKeys: two callers put to and remove two entities of an ObjectStore, *)
(* put in its phases.  The id of one entity is, as a text, the identity    *)
(* that the Blob of "world" has in the value store.                        *)

ValueKey == WorldBlob.v.identity
Keys == {Entity, ValueKey}

\* put, lines 446-463, of a simple value on one of the entities
KeyPutTree(c) ==
    /\ calls[c].pc = "idle"
    /\ Len(hist) + Cardinality(InFlight) < MaxCommits
    /\ \E key \in Keys, value \in {Hello, World} :
       \E r \in {PutRootTree(objstore, value)} :
          /\ objstore' = r.kvs
          /\ calls' = [calls EXCEPT ![c] =
                          [Idle EXCEPT !.pc = "tree", !.key = _reftostr(key),
                                       !.arg = value, !.value = r.ret]]
    /\ UNCHANGED <<conv, entityidx, now, hist, anc, last, track>>

\* A remove on a backend where the two stores are one key space
KeyRemoveShared(c) ==
    /\ calls[c].pc = "idle"
    /\ Len(hist) + Cardinality(InFlight) < MaxCommits
    /\ \E key \in Keys :
       \E r \in {Remove(objstore, entityidx, key)} :
          /\ objstore' = StoreRemove(r.kvs, _reftostr(key))
          /\ entityidx' = r.eidx
          /\ hist' = Append(hist, [op |-> "remove", key |-> _reftostr(key), arg |-> None,
                                   ret |-> r.ret, head |-> get_entity(entityidx, key)])
    /\ UNCHANGED <<conv, now, anc, last, track, calls>>

\* remove(key) of one of the entities: one backend call, so one step
KeyRemove(c) ==
    /\ calls[c].pc = "idle"
    /\ Len(hist) + Cardinality(InFlight) < MaxCommits
    /\ \E key \in Keys :
       \E r \in {Remove(objstore, entityidx, key)} :
          /\ objstore' = r.kvs
          /\ entityidx' = r.eidx
          /\ hist' = Append(hist, [op |-> "remove", key |-> _reftostr(key), arg |-> None,
                                   ret |-> r.ret, head |-> get_entity(entityidx, key)])
    /\ UNCHANGED <<conv, now, anc, last, track, calls>>

NextKeys ==
    \E c \in Callers : KeyPutTree(c) \/ ConcGetEntity(c) \/ ConcPutCommit(c) \/ ConcPutEntity(c)
                        \/ KeyRemove(c)

SpecKeys == Init /\ [][NextKeys]_vars

---------------------------------------------------------------------------
(* SpecRpc: the initiator of one rpc conversation.  Events reach its state *)
(* machine in any order; the timeout call and the reactor run in between.  *)

MaxEvents == 3

Events == {"request", "failure", "inform_result", "error", "timeout", "cancel"}
Statuses == {"OK", "ERROR", "none"}

\* The machine processes an event: the action of the transition runs and
\* the machine moves to the next state
Processed(c, event, status) ==
    RunAction(get_transition(create_fsm, event, c.state).action,
              [c EXCEPT !.state = get_transition(create_fsm, event, c.state).next_state,
                        !.events = @ + 1,
                        !.event = event,
                        !.action = get_transition(create_fsm, event, c.state).action],
              status)

\* rpc_send of the process: the blocking deferred and its timeout call are
\* made, and the request goes out
RpcSend ==
    /\ conv.state = "INIT"
    /\ conv.events = 0
    /\ conv' = Processed([conv EXCEPT !.blocking_deferred = "pending", !.rpc_call = "active"],
                         "request", "none")
    /\ UNCHANGED <<objstore, entityidx, now, calls, hist, anc, last, track>>

\* An event reaches the machine; a reply comes with a status header
RpcProcess ==
    /\ conv.events < MaxEvents
    /\ conv.pc = "idle"
    /\ \E event \in Events :
       \E status \in IF event \in {"failure", "inform_result"} THEN Statuses ELSE {"none"} :
          conv' = Processed(conv, event, status)
    /\ UNCHANGED <<objstore, entityidx, now, calls, hist, anc, last, track>>

\* The timeout call of rpc_send runs: conv.timeout is set and the deferred
\* fails; the machine is told of the timeout, or is not
RpcTimeout ==
    /\ conv.rpc_call = "active"
    /\ conv.pc = "idle"
    /\ \E told \in BOOLEAN :
          conv' = [IF told THEN Processed(conv, "timeout", "none") ELSE conv
                      EXCEPT !.timeout = TRUE, !.rpc_call = "called",
                             !.fired = Append(@, "timeout")]
    /\ UNCHANGED <<objstore, entityidx, now, calls, hist, anc, last, track>>

\* inform_result, lines 121-157: msg.ack() is done, and the completion of
\* the blocking deferred is given to reactor.callLater
RpcAck ==
    /\ conv.pc = "ack"
    /\ conv' = [conv EXCEPT !.pc = "idle", !.acked = TRUE,
                            !.later = IF conv.blocking_deferred = "none" THEN @
                                      ELSE Append(@, Completion(conv.status))]
    /\ UNCHANGED <<objstore, entityidx, now, calls, hist, anc, last, track>>

\* The reactor runs a call given to callLater
RpcReactor ==
    /\ Len(conv.later) > 0
    /\ conv' = [conv EXCEPT !.later = Tail(@), !.fired = Append(@, Head(conv.later))]
    /\ UNCHANGED <<objstore, entityidx, now, calls, hist, anc, last, track>>

NextRpc == RpcSend \/ RpcProcess \/ RpcTimeout \/ RpcAck \/ RpcReactor

SpecRpc == Init /\ [][NextRpc]_vars

---------------------------------------------------------------------------
(* Properties of get and remove, under Spec.                               *)

\* The last call is a get of the entity's head, and the call on the entity
\* before it was a put (op = "put") or a remove of its head (op = "remove")
GetAfter(op) ==
    /\ last.op = "get"
    /\ last.arg = None
    /\ Entity \in DOMAIN track
    /\ track[Entity].op = op

\* A value put that makes a tree of a single leaf: a simple value or a Blob
IsSingleLeaf(value) == value # None /\ (IsValueObject(value) => value.k = "ValueObject") /\ ~HasIter(value)

LeafContent(value) == IF IsValueObject(value) THEN value.v.value ELSE value

C6_GetAfterRemoveAbsent ==
    GetAfter("remove") => last.ret = None

C6_Witness ==
    /\ GetAfter("remove")
    /\ Commits(objstore) # {}
    /\ last.ret = None

\* C7: remove(entity) leaves the value store as it was, and get_value of
\* the entity's former head commit still gives that commit.
C7_RemoveKeepsValues ==
    [][last'.op = "remove" =>
          /\ objstore' = objstore
          /\ Truthy(last'.head) => get_value(objstore', last'.head).k = "CommitValue"]_vars

C7_Witness ==
    /\ last.op = "remove"
    /\ Truthy(last.head)
    /\ get_value(objstore, last.head).k = "CommitValue"
    /\ Entity \notin DOMAIN entityidx

\* C12: whatever the shape of the value put (a simple value, a Blob, a
\* Tree, a Commit), the root tree of the commit that is the head of an
\* entity is in the value store.
C12_HeadRootTreeStored ==
    \A key \in DOMAIN entityidx :
        get_value(objstore, entityidx[key]).v.value.v[Chars("roottree")] \in DOMAIN objstore

\* C14: after any sequence of puts and removes, size() returns the number
\* of entity ids that have an entry in the entity index.
C14_SizeCountsEntries ==
    last.op = "size" => last.ret = _num_entities(entityidx)

\* C33: a remove of an entity that has a head deletes the entry of the
\* entity from the index and completes with a result that is no error.
C33_RemoveCompletes ==
    (last.op = "remove" /\ Truthy(last.head))
        => (Entity \notin DOMAIN entityidx /\ ~IsRaise(last.ret))

\* The root tree of the commit stored under identity cref
RootTreeOf(cref) == get_value(objstore, cref).v.value.v[Chars("roottree")]

\* The commit cref, its root tree, and the children of the root tree are
\* all in the value store
AllStored(cref) ==
    /\ cref \in DOMAIN objstore
    /\ get_value(objstore, cref).v.vtype = PyStr(Chars("C"))
    /\ RootTreeOf(cref) \in DOMAIN objstore
    /\ get_value(objstore, RootTreeOf(cref)).v.vtype = PyStr(Chars("T"))
    /\ \A i \in 1..Len(get_tree_entries(objstore, RootTreeOf(cref)).v) :
           get_tree_entries(objstore, RootTreeOf(cref)).v[i].v[Chars("ref")] \in DOMAIN objstore

\* C34: get of an entity whose head commit, with its root tree and the
\* children of the root tree, is in the value store returns a value that is
\* not the absent value, also when the value put was an empty collection.
C34_GetOfStoredIsPresent ==
    (/\ last.op = "get"
     /\ last.arg = None
     /\ Entity \in DOMAIN entityidx
     /\ AllStored(entityidx[Entity]))
        => (last.ret # None /\ ~IsRaise(last.ret))

\* C22: when a put has completed and no other call has followed, what it
\* returned is a reference of type Commit, and the entry of the entity in
\* the entity index is the identity of that reference; so for the first put
\* of an entity too.
C22_PutSetsHead ==
    (last.op = "put" /\ ~IsRaise(last.ret))
        => /\ IsValueRef(last.ret)
           /\ last.ret.v.vtype = PyStr(Chars("C"))
           /\ last.ret.v.identity \in Commits(objstore)
           /\ Entity \in DOMAIN entityidx
           /\ entityidx[Entity] = last.ret.v.identity

\* The last call is the first put of the entity, and it returned
C22_Witness ==
    /\ last.op = "put"
    /\ ~IsRaise(last.ret)
    /\ last.head = None
    /\ entityidx[Entity] = last.ret.v.identity

\* The parents of the commit that the last call returned, as it is stored
LastParents == get_value(objstore, last.ret).v.value.v[Chars("parents")]

\* C23: a put that was given parents makes a commit whose parents are the
\* identities of the references given, in the order given, the head of the
\* entity not added; the entry of the entity is the new commit.
C23_ExplicitParentsKept ==
    (last.op = "put" /\ last.arg # None /\ ~IsRaise(last.ret))
        => /\ LastParents = PyList(RefStrs(last.arg.v))
           /\ entityidx[Entity] = last.ret.v.identity

\* The last call is a put on an entity with a head, given two parents of
\* which the first is not the head: the commit has these two, in this order
C23_Witness ==
    /\ last.op = "put"
    /\ ~IsRaise(last.ret)
    /\ Truthy(last.head)
    /\ last.arg = PyList(<<Missing, last.head>>)
    /\ LastParents = PyList(<<Missing, last.head>>)

---------------------------------------------------------------------------
(* Properties of the reading calls, under SpecRead.                        *)

\* C15: get_value of an identity the value store does not hold, and get of
\* an entity with no index entry, return the absent value and raise
\* nothing; neither changes the value store or the entity index.
C15_AbsenceIsNoError ==
    [][/\ (last'.op = "get_value" /\ _reftostr(last'.arg) \notin DOMAIN objstore)
              => last'.ret = None
       /\ (last'.op = "get" /\ last'.arg = None /\ Entity \notin DOMAIN entityidx)
              => last'.ret = None
       /\ last'.op \in {"get_value", "get"}
              => (objstore' = objstore /\ entityidx' = entityidx)]_vars

\* After a put and a remove the entity has no entry, and get of it has
\* returned the absent value
C15_Witness ==
    /\ last.op = "get"
    /\ last.arg = None
    /\ last.ret = None
    /\ Entity \notin DOMAIN entityidx
    /\ Missing \notin DOMAIN objstore
    /\ get_value(objstore, Missing) = None
    /\ Commits(objstore) # {}

\* The vtype of the value stored under the identity asked for
StoredType(valid) == get_value(objstore, valid).v.vtype

\* C16: get_tree_entries of an identity whose value is not a Tree, and
\* get_commit of an identity whose value is not a Commit, raise an error
\* to the caller and return no value; neither changes the value store or
\* the entity index.
C16_TypeMismatchRaises ==
    [][/\ (/\ last'.op = "get_tree_entries"
           /\ last'.arg \in DOMAIN objstore
           /\ StoredType(last'.arg) # PyStr(Chars("T")))
              => last'.ret = Raise("RuntimeError")
       /\ (/\ last'.op = "get_commit"
           /\ last'.arg \in DOMAIN objstore
           /\ StoredType(last'.arg) # PyStr(Chars("C")))
              => last'.ret = Raise("RuntimeError")
       /\ last'.op \in {"get_tree_entries", "get_commit"}
              => (objstore' = objstore /\ entityidx' = entityidx)]_vars

\* get_commit was asked for a stored Tree, and raised
C16_Witness ==
    /\ last.op = "get_commit"
    /\ last.arg \in DOMAIN objstore
    /\ StoredType(last.arg) = PyStr(Chars("T"))
    /\ last.ret = Raise("RuntimeError")

\* The values of store kvs are stored under their identity, which is the hash
\* of the canonical encoding of their content
KeyedByContent(kvs) ==
    \A id \in DOMAIN kvs :
        /\ get_value(kvs, id).v.identity = id
        /\ _secure_value_hash(get_value(kvs, id).v.value) = id

GotCommit == IF Truthy(last.arg) THEN last.arg ELSE last.head
GotEntries == get_commit_root_entriesvalues(objstore, GotCommit)

\* What the entries of the Tree value rebuild to
SubValue(value) == _build_value(objstore, get_tree_entriesvalues(objstore, value), TRUE)

\* Entry e of the root tree is a Tree whose entries rebuild to a data object
IsSubtree(e) ==
    /\ e.v.value.k = "TreeValue"
    /\ ~IsRaise(get_tree_entriesvalues(objstore, e.v.value))
    /\ SubValue(e.v.value).k = "DataObject"

\* The value that ret has under the name of entry e
Under(ret, e) == ret.v[e.v.entry.v[Chars("name")].v]

\* ret has the rebuilt value of entry e under the name of e
HoldsRebuilt(ret, e) ==
    /\ ~IsRaise(ret)
    /\ ret.k = "DataObject"
    /\ e.v.entry.v[Chars("name")].v \in DOMAIN ret.v
    /\ Under(ret, e) = IF e.v.value.k = "TreeValue" THEN SubValue(e.v.value)
                       ELSE LeafObject(e.v.value)

\* C31: when get has read a commit whose root tree has an entry that is a
\* Tree, what it returned holds under that entry's name the rebuilt value
\* of the subtree, and when the root tree has more than one entry, each
\* leaf is held under its entry's name.
C31_SubtreeResolved ==
    (/\ last.op = "get"
     /\ Truthy(GotCommit)
     /\ ~IsRaise(GotEntries)
     /\ Truthy(GotEntries))
        => \A i \in 1..Len(GotEntries.v) :
              /\ IsSubtree(GotEntries.v[i]) => HoldsRebuilt(last.ret, GotEntries.v[i])
              /\ (Len(GotEntries.v) > 1 /\ GotEntries.v[i].v.value.k = "ValueObject")
                     => HoldsRebuilt(last.ret, GotEntries.v[i])

---------------------------------------------------------------------------
(* Properties of the entity index, under SpecIdx.                          *)

\* The calls that only read, and the calls on the ValueStore
IdxReads == {"get", "getmult", "get_commitref", "get_entity", "size"}
VsCalls == {"put_value", "put_tree", "put_commit", "get_value", "get_tree_entries",
            "get_commit"}

\* C21: the entity index changes only in a put, which sets the entry of its
\* entity to the commit it returns, and in a remove, which deletes the entry
\* of its entity; get, getmult, get_commitref, get_entity, size and the calls
\* on the ValueStore leave it as it is, and get and getmult leave the value
\* store as it is too.
C21_IndexFrame ==
    [][/\ entityidx' # entityidx =>
            \/ /\ last'.op = "put"
               /\ ~IsRaise(last'.ret)
               /\ entityidx' = StorePut(entityidx, last'.key, last'.ret.v.identity)
            \/ /\ last'.op = "remove"
               /\ entityidx' = StoreRemove(entityidx, last'.key)
       /\ last'.op \in IdxReads \cup VsCalls => entityidx' = entityidx
       /\ last'.op \in {"get", "getmult"} => objstore' = objstore]_vars

\* The last call is a getmult of two entities, one with a head and one
\* without, and it gave a value for the one and None for the other
C21_Witness ==
    /\ last.op = "getmult"
    /\ last.key = PyList(<<Entity, Other>>)
    /\ Entity \in DOMAIN entityidx
    /\ last.ret.k = "list"
    /\ last.ret.v[1] # None
    /\ last.ret.v[2] = None

\* The root tree of the commit that the last call returned, as it is stored
LastRootTree == get_value(objstore, last.ret).v.value.v[Chars("roottree")]

\* The identity of the Blob of a single value: of the Blob itself, of the
\* encoding of a data object, of the value
BlobIdentity(value) ==
    IF IsValueObject(value) THEN value.v.identity
    ELSE IF value.k = "DataObject" THEN _secure_value_hash(PyDict(value.v))
    ELSE _secure_value_hash(value)

\* The store holds tree, and it has one entry, which refers to blob
OneEntryTree(tree, blob) ==
    /\ tree \in DOMAIN objstore
    /\ get_value(objstore, tree).k = "TreeValue"
    /\ Len(get_value(objstore, tree).v.value.v[Chars("children")].v) = 1
    /\ get_value(objstore, tree).v.value.v[Chars("children")].v[1].v[Chars("ref")] = blob
    /\ blob \in DOMAIN objstore
    /\ get_value(objstore, blob).k = "ValueObject"

\* C25: the root tree of the commit that put makes is, for a Tree value, the
\* identity of that Tree; for a Commit value, the root tree of that commit;
\* for any other single value, the identity of a stored Tree with exactly
\* one entry, which refers to the Blob of the value.
C25_RootTreeByShape ==
    (last.op = "put" /\ ~IsRaise(last.ret)) =>
        IF last.value.k = "TreeValue" THEN LastRootTree = last.value.v.identity
        ELSE IF last.value.k = "CommitValue"
        THEN LastRootTree = last.value.v.value.v[Chars("roottree")]
        ELSE OneEntryTree(LastRootTree, BlobIdentity(last.value))

\* The last call is a put of a data object, and an earlier put was that of
\* the Tree that the caller built
C25_Witness ==
    /\ last.op = "put"
    /\ ~IsRaise(last.ret)
    /\ last.value = HelloObject
    /\ OneEntryTree(LastRootTree, BlobIdentity(HelloObject))
    /\ get_value(objstore, BlobIdentity(HelloObject)).v.value = PyDict(HelloObject.v)
    /\ HelloTree.v.identity \in {get_value(objstore, c).v.value.v[Chars("roottree")] :
                                    c \in Commits(objstore)}

\* C26: get(entity, commit=X) of a stored commit X gives what get(entity)
\* gives when X is the head of the entity, whether or not X can be reached
\* from the head that the entity has.
C26_GetOfCommitOverrides ==
    (last.op = "get" /\ Truthy(last.arg))
        => last.ret = Get(objstore, put_entity(entityidx, Entity, last.arg), Entity, None)

\* The last call is a get of a commit that is neither the head of the entity
\* nor an ancestor of it, and it gave the data object of that commit
C26_Witness ==
    /\ last.op = "get"
    /\ Truthy(last.arg)
    /\ Truthy(last.head)
    /\ last.arg # last.head
    /\ last.arg \notin Ancestors(objstore, last.head)
    /\ last.ret.k = "DataObject"
    /\ last.ret # Get(objstore, entityidx, Entity, None)

\* C35: a put that fails, while it builds its root tree or its commit,
\* leaves the entity index as it was: the entity keeps the head it had, or
\* stays without an entry.
C35_FailedPutKeepsIndex ==
    [][(last'.op = "put" /\ IsRaise(last'.ret) /\ last' # last)
           => entityidx' = entityidx]_vars

\* A put on an entity that has a head has failed at the commit, after its
\* root tree was written, and the head is the one the entity had
C35_Witness ==
    /\ last.op = "put"
    /\ last.arg = PyDict(BadAttrs)
    /\ last.ret = Raise("TypeError")
    /\ Truthy(last.head)
    /\ get_entity(entityidx, Entity) = last.head
    /\ put_tree(objstore, Hello).ret.v.identity \in DOMAIN objstore

---------------------------------------------------------------------------
(* Properties of concurrent puts, under SpecConc.                          *)

\* The commits that can be reached from the head of the entity
FromHead == {get_entity(entityidx, Entity)}
                \cup Ancestors(objstore, get_entity(entityidx, Entity))

\* C1: of two puts to the entity that gave no parents and read the same
\* prior head, once both are complete either one has failed or the commits
\* of both can be reached from the head of the entity.
C1_NoLostUpdate ==
    \A i, j \in 1..Len(hist) :
        (i # j /\ Truthy(hist[i].head) /\ hist[i].head = hist[j].head)
            => \/ IsRaise(hist[i].ret)
               \/ IsRaise(hist[j].ret)
               \/ {hist[i].ret.v.identity, hist[j].ret.v.identity} \subseteq FromHead

\* C11: in every state, those in the middle of interleaved put calls
\* included, every entry of the entity index is the identity of a Commit
\* that the value store holds.
C11_HeadIsStoredCommit ==
    \A key \in DOMAIN entityidx :
        /\ entityidx[key] \in DOMAIN objstore
        /\ get_value(objstore, entityidx[key]).k = "CommitValue"
        /\ get_value(objstore, entityidx[key]).v.identity = entityidx[key]

\* A caller has put its commit and not yet set the head, which is the
\* commit of an earlier put
C11_Witness ==
    \E c \in Callers :
        /\ calls[c].pc = "commit"
        /\ calls[c].ret.v.identity \in DOMAIN objstore
        /\ Entity \in DOMAIN entityidx
        /\ entityidx[Entity] # calls[c].ret.v.identity
        /\ entityidx[Entity] \in Commits(objstore)

\* The commits that completed puts returned
Returned == {hist[i].ret.v.identity : i \in {j \in 1..Len(hist) : hist[j].op = "put"}}

\* The step ends a call of caller c without completing it
Abandons(c) ==
    /\ calls[c].pc # "idle"
    /\ calls'[c].pc = "idle"
    /\ Len(hist') = Len(hist) + 1
    /\ hist'[Len(hist')].op = "abandon"

\* C20: a put that is abandoned leaves the entity index as it was; the index
\* changes only in the step that completes a put, which sets the entry of the
\* put's entity to the put's commit and writes nothing else, and a step that
\* writes to the value store does not complete a put.
C20_IndexWrittenLast ==
    [][/\ \A c \in Callers : Abandons(c) => entityidx' = entityidx
       /\ entityidx' # entityidx =>
            \E c \in Callers :
                /\ calls[c].pc = "commit"
                /\ calls'[c] = Idle
                /\ hist' = Append(hist, [op |-> "put", key |-> calls[c].key,
                                         arg |-> calls[c].arg, ret |-> calls[c].ret,
                                         head |-> calls[c].cref])
                /\ entityidx' = put_entity(entityidx, calls[c].key, calls[c].ret)
                /\ objstore' = objstore
       /\ objstore' # objstore => (hist' = hist /\ entityidx' = entityidx)]_vars

\* No put is in flight and one was abandoned after its put_commit: the store
\* holds its commit, which no completed put returned, and the entry of the
\* entity is absent or the commit of a completed put
C20_Witness ==
    /\ \A c \in Callers : calls[c].pc = "idle"
    /\ \E i \in 1..Len(hist) :
          /\ hist[i].op = "abandon"
          /\ Truthy(hist[i].ret)
          /\ hist[i].ret.v.identity \in Commits(objstore) \ Returned
    /\ \A key \in DOMAIN entityidx : entityidx[key] \in Returned

---------------------------------------------------------------------------
(* Properties of the two key spaces and of distinct entities, under        *)
(* SpecKeys.                                                               *)

CallsOn(key) == SelectSeq(hist, LAMBDA e : e.key = key)

\* The head that the completed calls on entity key leave
HeadBy(key) ==
    IF Len(CallsOn(key)) = 0 \/ CallsOn(key)[Len(CallsOn(key))].op = "remove" THEN None
    ELSE _reftostr(CallsOn(key)[Len(CallsOn(key))].ret)

\* The commit of the put that hist has at i has for parents the head its
\* call read, which is no head or the commit of an earlier put on its entity
ChainOwn(i) ==
    /\ get_commit(objstore, hist[i].ret).v.value.v[Chars("parents")]
           = PyList(IF Truthy(hist[i].head) THEN <<hist[i].head>> ELSE <<>>)
    /\ Truthy(hist[i].head)
           => \E j \in 1..(i - 1) : /\ hist[j].op = "put"
                                    /\ hist[j].key = hist[i].key
                                    /\ _reftostr(hist[j].ret) = hist[i].head

\* C36: calls on distinct entities do not interfere, however their steps
\* interleave: the index entry of an entity changes only in the step that
\* completes a put or a remove on that entity, it is what the calls on that
\* entity alone leave, and the parents of each commit put are the head of
\* the put's own entity.
C36_DistinctEntitiesApart ==
    /\ [][\A key \in Keys :
              StoreGet(entityidx', key) # StoreGet(entityidx, key)
                  => /\ Len(hist') = Len(hist) + 1
                     /\ hist'[Len(hist')].key = key]_vars
    /\ [](\A key \in Keys : StoreGet(entityidx, key) = HeadBy(key))
    /\ [](\A i \in 1..Len(hist) : hist[i].op = "put" => ChainOwn(i))

\* Both entities have a head, the two heads differ, and a put on the one
\* has read its head while a put on the other completed
C36_Witness ==
    /\ Len(hist) = 2
    /\ hist[1].op = "put" /\ hist[1].key = Entity
    /\ hist[2].op = "put" /\ hist[2].key = ValueKey
    /\ StoreGet(entityidx, Entity) # StoreGet(entityidx, ValueKey)
    /\ \E c \in Callers : /\ calls[c].pc \in {"head", "commit"}
                          /\ calls[c].key = Entity
                          /\ calls[c].cref = _reftostr(hist[1].ret)

---------------------------------------------------------------------------
(* Properties of the rpc conversation, under SpecRpc.                      *)

\* C37: in the state machine of an rpc conversation, DONE is entered only
\* from REQUESTED on inform_result, FAILED only from REQUESTED on failure,
\* TIMEOUT only from REQUESTED on timeout, and REQUESTED only from INIT on
\* request; the event error leads to ERROR from every state, and every
\* other event that the current state has no transition for, so every
\* other event in DONE, FAILED or TIMEOUT, leads to UNEXPECTED; the state
\* changes only when an event is processed.
C37_RpcTransitions ==
    [][IF conv'.events = conv.events THEN conv'.state = conv.state
       ELSE /\ conv'.state = "DONE"
                  => (conv.state = "REQUESTED" /\ conv'.event = "inform_result")
            /\ conv'.state = "FAILED"
                  => (conv.state = "REQUESTED" /\ conv'.event = "failure")
            /\ conv'.state = "TIMEOUT"
                  => (conv.state = "REQUESTED" /\ conv'.event = "timeout")
            /\ conv'.state = "REQUESTED"
                  => (conv.state = "INIT" /\ conv'.event = "request")
            /\ conv'.event = "error" => conv'.state = "ERROR"
            /\ (/\ conv'.event # "error"
                /\ <<conv'.event, conv.state>> \notin
                       {<<"request", "INIT">>, <<"failure", "REQUESTED">>,
                        <<"inform_result", "REQUESTED">>, <<"timeout", "REQUESTED">>})
                  => conv'.state = "UNEXPECTED"]_vars

\* A second inform_result has reached the machine in DONE, after the first
\* was acked, and the machine is in UNEXPECTED
C37_Witness ==
    /\ conv.events = 3
    /\ conv.event = "inform_result"
    /\ conv.state = "UNEXPECTED"
    /\ conv.acked

\* C38: once the conversation has timed out, a reply that inform_result
\* processes is dropped: the message is not acked and no callback or errback
\* of the blocking deferred is scheduled or run.  When inform_result
\* processes a reply before the timeout and there is a blocking deferred,
\* the timeout call is cancelled, and once the message is acked exactly one
\* completion is scheduled, an errback if the status header is ERROR and a
\* callback if it is anything else.
C38_ReplyAfterTimeoutDropped ==
    /\ conv.timeout
           => /\ ~conv.acked
              /\ conv.pc = "idle"
              /\ conv.later = <<>>
              /\ conv.fired = <<"timeout">>
    /\ (conv.blocking_deferred # "none" /\ conv.pc = "ack")
           => (conv.rpc_call = "cancelled" /\ conv.later = <<>> /\ conv.fired = <<>>)
    /\ (conv.blocking_deferred # "none" /\ conv.acked)
           => /\ conv.rpc_call = "cancelled"
              /\ conv.later \o conv.fired
                     = <<IF conv.status = "ERROR" THEN "errback" ELSE "callback">>

\* The conversation timed out with its machine still in REQUESTED, and a
\* failure reply that came after it was dropped
C38_Witness ==
    /\ conv.timeout
    /\ conv.dropped = 1
    /\ conv.event = "failure"
    /\ conv.state = "FAILED"

---------------------------------------------------------------------------
(* Properties of the value store, under SpecVS.                            *)

\* The call completed at position i of hist is a put_value that returned
IsPut(i) == hist[i].op = "put_value" /\ ~IsRaise(hist[i].ret)

\* C8: put_value(C) followed by get_value of the identity it returned gives
\* a value whose content equals C.
C8_PutGetRoundTrip ==
    \A i \in 2..Len(hist) :
        (IsPut(i - 1) /\ hist[i].op = "get_value" /\ hist[i].arg = hist[i - 1].ret)
            => /\ hist[i].ret # None
               /\ hist[i].ret.k = "ValueObject"
               /\ hist[i].ret.v.value = LeafContent(hist[i - 1].arg)
               /\ hist[i].ret.v.identity = hist[i - 1].ret.v.identity

C8_Witness ==
    /\ Len(hist) = 2
    /\ IsPut(1)
    /\ hist[1].arg = PyTuple(<<Hello>>)
    /\ hist[2].op = "get_value"
    /\ hist[2].arg = hist[1].ret
    /\ hist[2].ret.v.value = PyTuple(<<Hello>>)

\* Caller c completes a put_value(C) in this step, after an earlier
\* put_value(C) completed, the store holding C under its identity
PutsAgain(c) ==
    /\ calls[c].pc = "put"
    /\ calls'[c].pc = "idle"
    /\ \E i \in 1..Len(hist) : IsPut(i) /\ hist[i].arg = calls[c].arg
    /\ get_value(objstore, calls[c].value.v.identity) = calls[c].value

\* C9: a second put_value(C), after the first or interleaved with it,
\* returns the identity the first returned, does not fail, and leaves the
\* store with the one entry for C and its content as they were.
C9_PutValueIdempotent ==
    [][\A c \in Callers :
          PutsAgain(c) =>
              /\ objstore' = objstore
              /\ \A i \in 1..Len(hist) :
                    (IsPut(i) /\ hist[i].arg = calls[c].arg)
                        => hist'[Len(hist')].ret = hist[i].ret
              /\ Cardinality({id \in DOMAIN objstore' :
                                 PickleLoads(objstore'[id]) = calls[c].value}) = 1]_vars

\* Two put_value(C) calls have completed
C9_Witness ==
    /\ Len(hist) = 2
    /\ IsPut(1) /\ IsPut(2)
    /\ hist[1].arg = Hello /\ hist[2].arg = Hello
    /\ hist[1].ret = hist[2].ret
    /\ Cardinality(DOMAIN objstore) = 1

\* C10: put_tree of the same children in any order returns the same Tree
\* identity.
C10_TreeOrderIndependent ==
    \A i, j \in 1..Len(hist) :
        (/\ hist[i].op = "put_tree" /\ hist[j].op = "put_tree"
         /\ Range(hist[i].arg.v) = Range(hist[j].arg.v))
            => /\ ~IsRaise(hist[i].ret)
               /\ hist[i].ret = hist[j].ret

C10_Witness ==
    /\ Len(hist) = 2
    /\ hist[1].op = "put_tree" /\ hist[2].op = "put_tree"
    /\ hist[1].arg = PyList(<<Hello, World, One>>)
    /\ hist[2].arg = PyList(<<One, World, Hello>>)
    /\ hist[1].ret = hist[2].ret
    /\ hist[1].ret.v.vtype = PyStr(Chars("T"))

\* C18: put_value of None or of empty content fails, and writes no value.
C18_NilOrEmptyRejected ==
    \A i \in 1..Len(hist) :
        (hist[i].op = "put_value" /\ hist[i].arg \in {None, Empty})
            => /\ IsRaise(hist[i].ret)
               /\ _secure_value_hash(Empty) \notin DOMAIN objstore

\* The refs of the entries es, in their order
Refs(es) == [i \in 1..Len(es) |-> es[i].v[Chars("ref")]]

\* No entry of es has a ref less than that of the entry before it
SortedByRef(es) ==
    \A i \in 1..(Len(es) - 1) : ~StrLess(Refs(es)[i + 1].v, Refs(es)[i].v)

\* C29: the entries of every Tree in the store are in nondecreasing order of
\* ref, and so are the entries that get_tree_entries returns, which for the
\* Tree of a put_tree call are the entries of the children given, whatever
\* their order.
C29_TreeEntriesSorted ==
    /\ \A id \in DOMAIN objstore :
          get_value(objstore, id).k = "TreeValue"
              => SortedByRef(get_value(objstore, id).v.value.v[Chars("children")].v)
    /\ \A j \in 1..Len(hist) :
          (hist[j].op = "get_tree_entries" /\ hist[j].ret.k = "list")
              => /\ SortedByRef(hist[j].ret.v)
                 /\ \A i \in 1..(j - 1) :
                       (hist[i].op = "put_tree" /\ hist[i].ret = hist[j].arg)
                           => Range(Refs(hist[j].ret.v))
                                  = {ValueObject(child).v.identity : child \in Range(hist[i].arg.v)}

\* get_tree_entries of the Tree of a put_tree of three children gave three
\* entries, of which the first is not the entry of the first child given
C29_Witness ==
    /\ Len(hist) = 2
    /\ hist[1].op = "put_tree"
    /\ Len(hist[1].arg.v) = 3
    /\ hist[2].op = "get_tree_entries"
    /\ hist[2].arg = hist[1].ret
    /\ Len(hist[2].ret.v) = 3
    /\ Refs(hist[2].ret.v)[1] # ValueObject(hist[1].arg.v[1]).v.identity

---------------------------------------------------------------------------
(* Properties of put_tree in steps, under SpecTree.                        *)

\* The identity of a child given to put_tree as content or as a value object
ChildIdentity(child) ==
    IF IsValueObject(child) THEN child.v.identity ELSE ValueObject(child).v.identity

IsBareRef(child) == IsValueRef(child) /\ ~IsValueObject(child)

\* C13: in every state, also while other put_tree calls are in their loop,
\* a Tree that a put_tree call has written is in the value store together
\* with every child that call was given as content or as a value object;
\* children given as bare references are excepted.
C13_ChildrenBeforeTree ==
    \A i \in 1..Len(hist) :
        (hist[i].op = "put_tree" /\ ~IsRaise(hist[i].ret))
            => /\ hist[i].ret.v.identity \in DOMAIN objstore
               /\ \A n \in 1..Len(TreeChildren(hist[i].arg)) :
                     IsBareRef(TreeChildren(hist[i].arg)[n])
                     \/ ChildIdentity(TreeChildren(hist[i].arg)[n]) \in DOMAIN objstore

\* The entries of the Tree that a put_tree call returned
StoredEntries(ret) == get_tree_entries(objstore, ret)

\* The stored Tree has the entry e as it was given
KeepsEntry(ret, e) ==
    \E n \in 1..Len(StoredEntries(ret).v) : StoredEntries(ret).v[n] = e.v.entry

\* The stored Tree has an entry for the child whose name is its ref
NamesByRef(ret, child) ==
    \E n \in 1..Len(StoredEntries(ret).v) :
        /\ StoredEntries(ret).v[n].v[Chars("ref")] = ChildIdentity(child)
        /\ StoredEntries(ret).v[n].v[Chars("name")] = ChildIdentity(child)

\* C30: a put_tree call given a child that is a TreeEntry returns the
\* reference of a Tree, and the stored Tree has that entry with its name and
\* attrs, while each child given without a name has an entry whose name is
\* its ref string.
C30_EntryChildKept ==
    \A i \in 1..Len(hist) :
        (hist[i].op = "put_tree" /\ hist[i].arg = PyList(<<Hello, NamedEntry>>))
            => /\ ~IsRaise(hist[i].ret)
               /\ KeepsEntry(hist[i].ret, NamedEntry)
               /\ NamesByRef(hist[i].ret, Hello)

\* A put_tree given a bare reference and a simple value has written its
\* Tree, the value referred to is not stored, and the other caller is in
\* the loop of its own put_tree
C13_Witness ==
    /\ Len(hist) = 1
    /\ hist[1].arg = PyList(<<OneRef, Hello>>)
    /\ hist[1].ret.v.identity \in DOMAIN objstore
    /\ OneRef.v.identity \notin DOMAIN objstore
    /\ \E c \in Callers : calls[c].pc = "child" /\ Len(calls[c].childrefs) = 1

====
